---- MODULE Spec2Model ----
(***************************************************************************)
(* State-machine model of the server monitor's orchestration layer:       *)
(* MonitorService (monitor/monitor.go), the collector and notifier        *)
(* registries and Config.GetCollectorInterval.                            *)
(*                                                                         *)
(* Threads: the host thread that calls Start and Stop (main.go), and one  *)
(* goroutine per scheduled collector (startCollectorTask).                 *)
(*                                                                         *)
(* Time is a discrete clock in seconds that advances by TimeStep.  The    *)
(* control steps of the service (the stages of Start, the select of a     *)
(* task loop, the steps of Stop other than wg.Wait) take no time: the     *)
(* clock advances only when none of them is enabled.  The plugin calls    *)
(* Collect and Notify take an arbitrary amount of time and may never      *)
(* return; the host may call Stop at any instant.                         *)
(***************************************************************************)
EXTENDS Integers, Sequences, FiniteSets, TLC

\* ------------------------------------------------------------------ bounds
MaxSteps == 4
MaxBatch == 2
MaxStartCalls == 2
MaxStopCalls == 2
MaxDetail == 2
MaxThreads == 2
MaxInstances == 2

\* ------------------------------------------------------- program constants
\* runCollector: context.WithTimeout(ctx, 30*time.Second), in seconds.
CollectTimeout == 30

\* sendNotifications: context.WithTimeout(ctx, 30*time.Second), in seconds.
NotifyTimeout == 30

\* The clock advances in steps of one collection timeout.
TimeStep == CollectTimeout
MaxTime == TimeStep * MaxSteps

\* registerCollectors registers disk.NewDiskCollector() and then
\* memory.NewMemoryCollector(); these are their Name() values.
KnownCollectors == <<"disk_space", "memory">>

\* registerNotifiers registers email.NewEmailNotifier(); its Name() value.
KnownNotifiers == <<"email">>

CollectorSet == {KnownCollectors[i] : i \in 1..Len(KnownCollectors)}
NotifierSet == {KnownNotifiers[i] : i \in 1..Len(KnownNotifiers)}

\* Names that may appear as keys of Config.Collectors; "cpu" has no plugin.
ConfigNames == {"disk_space", "memory", "cpu"}

\* An entry of the map Config.Collectors: CollectorConfig{Enabled, Interval}
\* (Interval in seconds), Present = FALSE for a key that is not in the map.
\* Settings is opaque and decides only whether the plugin's Init succeeds.
NoEntry == [Present |-> FALSE, Enabled |-> FALSE, Interval |-> 0]
Entry(en, iv) == [Present |-> TRUE, Enabled |-> en, Interval |-> iv]

\* A map Config.Collectors with the given entries.
CollectorMap(d, m, x) ==
  [n \in ConfigNames |->
     CASE n = "disk_space" -> d [] n = "memory" -> m [] OTHER -> x]

Cfg(dflt, cs, email) ==
  [DefaultIntervalSeconds |-> dflt, Collectors |-> cs, EmailEnabled |-> email]

\* The configurations the service is constructed with: the README's example
\* (disk_space every 60 s, memory every 120 s); one that relies on the
\* default interval, disables the memory collector and enables a collector
\* that has no plugin; one whose default interval is 0, a Config handed to
\* NewMonitorService that did not go through validateConfig; and the memory
\* collector alone every 30 s.  Each with and without the email notifier.
Configs ==
  { Cfg(k[1], k[2], e) :
      k \in { <<300, CollectorMap(Entry(TRUE, 60), Entry(TRUE, 120), NoEntry)>>,
              <<60, CollectorMap(Entry(TRUE, 0), Entry(FALSE, 60), Entry(TRUE, 0))>>,
              <<0, CollectorMap(Entry(TRUE, 0), Entry(TRUE, 120), Entry(TRUE, 0))>>,
              <<60, CollectorMap(NoEntry, Entry(TRUE, 30), NoEntry)>> },
      e \in BOOLEAN }

\* Result batches, reduced to the IsHealthy flag of each Result.
Batches == UNION { [1..n -> BOOLEAN] : n \in 0..MaxBatch }

\* collectors.Result: the IsHealthy flag, and Detail for the fields that
\* describe the measurement (Collector, Timestamp, Metrics, Threshold,
\* Message).
Results == [IsHealthy : BOOLEAN, Detail : 1..MaxDetail]
ResultBatches == UNION { [1..n -> Results] : n \in 0..MaxBatch }

VARIABLES
  config,            \* s.config
  now,               \* the clock, seconds since the first Start
  collectorRegistry, \* names registered in s.collectorRegistry
  notifierRegistry,  \* names registered in s.notifierRegistry
  collectorInited,   \* collectors whose Init returned nil
  notifierInited,    \* notifiers whose Init returned nil
  hostPc,            \* position of the host thread inside Start / Stop
  todo,              \* entries left in the map / slice the host iterates
  startCalls,        \* calls of Start so far
  stopCalls,         \* calls of Stop so far
  stopsReturned,     \* calls of Stop that have returned
  startResult,       \* result of the last Start that returned
  startedOk,         \* a call of Start has returned nil
  cancelled,         \* s.ctx is cancelled (s.cancel() was called)
  wg,                \* s.wg counter
  collectorTasks,    \* keys of s.collectorTasks
  loop,              \* position of each collector's goroutine
  interval,          \* period of each goroutine's ticker
  nextTick,          \* time at which each ticker fires next
  tickPending,       \* ticker.C holds a tick (buffer of one)
  callCtx,           \* context of the plugin call in flight: "live", "expired"
                     \* (deadline passed), "cancelledInFlight" (s.ctx was
                     \* cancelled during the call), "cancelledAtStart"
  callStart,         \* time at which the plugin call in flight started
  late,              \* a plugin call was in flight after its deadline
  notifyArg,         \* results handed to the Notify call in flight
  inflight,          \* runCollector calls in progress per collector
  invocations,       \* Collect calls started per collector
  invokedAt,         \* times at which Collect calls started
  overrun,           \* a tick fired while the loop was not at its select
  loopStart,         \* time at which each goroutine created its ticker
  lastOutcome,       \* the err of the runCollector call the loop is back
                     \* from, while the goroutine is at its select
  cleanupCount,      \* Cleanup calls per collector
  closeCount,        \* Close calls per notifier
  stopErrs,          \* a Cleanup or Close of the last Stop returned an error
  pPc,               \* a call of processResults or runCollector: "off",
                     \* "call", "notifying", "returned", "collectFailed"
  pResults,          \* its argument results
  pNotified,         \* the Notify calls it made: notifier, argument,
                     \* context and, once returned, outcome
  pReturn,           \* the error it returned
  rMap,              \* a Registry's map: name -> instance (0 = no entry)
  rMu,               \* its RWMutex: the writer and the readers holding it
  rPc,               \* position of each thread inside a Registry method
  rOp,               \* the method each thread is in or was last in
  rRet,              \* what the last method of each thread returned
  rWins,             \* per name, the instances whose Register returned nil
  ivPc,              \* position of the caller of GetCollectorInterval
  ivIn,              \* the Config entry and default it is called with
  ivOut,             \* the time.Duration it returned
  lkPc,              \* position of each goroutine around its lock uses
  lkMu,              \* the goroutine that holds s.mu
  lkReg              \* per registry, the goroutines that hold r.mu

vars ==
  << config, now, collectorRegistry, notifierRegistry, collectorInited,
     notifierInited, hostPc, todo, startCalls, stopCalls, stopsReturned,
     startResult, startedOk, cancelled, wg, collectorTasks, loop, interval, nextTick,
     tickPending, callCtx, callStart, late, notifyArg, inflight, invocations,
     invokedAt, overrun, loopStart, lastOutcome, cleanupCount,
     closeCount, stopErrs, pPc, pResults, pNotified, pReturn, rMap, rMu,
     rPc, rOp, rRet, rWins, ivPc, ivIn, ivOut, lkPc, lkMu, lkReg >>

hostVars ==
  << hostPc, todo, startCalls, stopCalls, stopsReturned, startResult, startedOk >>
registryVars ==
  << collectorRegistry, notifierRegistry, collectorInited, notifierInited >>
loopVars ==
  << loop, interval, nextTick, tickPending, callCtx, callStart, late,
     notifyArg,
     inflight, invocations, invokedAt, overrun, loopStart, lastOutcome >>
stopVars == << cleanupCount, closeCount, stopErrs >>
pipeVars == << pPc, pResults, pNotified, pReturn >>
regVars == << rMap, rMu, rPc, rOp, rRet, rWins >>
ivVars == << ivPc, ivIn, ivOut >>
lockVars == << lkPc, lkMu, lkReg >>

\* Threads that call the methods of one Registry, the names of the
\* instances they hold (Name() may be empty) and the instances: several
\* instances can have the same name.
Threads == 1..MaxThreads
RegNames == {"", "disk_space", "memory"}
NoOp == [kind |-> "none", name |-> "", id |-> 0]
NoRet == [err |-> FALSE, exists |-> FALSE, id |-> 0, list |-> << >>]

\* A nil error, and the error sendNotifications builds from the errors it
\* gathered ("notification errors: [...]").
NilError == [err |-> FALSE, refs |-> << >>]
NotificationErrors(errs) == [err |-> TRUE, refs |-> errs]

\* ------------------------------------------------------- 64-bit integers
\* Go's int (on a 64-bit platform) and time.Duration (int64) as the eight
\* bytes of their two's complement representation, lowest byte first.
\* Go's integer arithmetic wraps silently on overflow.
RECURSIVE BytesOf(_, _)
BytesOf(n, k) ==
  IF k = 0 THEN << >> ELSE << n % 256 >> \o BytesOf(n \div 256, k - 1)

\* The int64 that has the value n.
Int64Of(n) ==
  IF n >= 0 THEN BytesOf(n, 8)
  ELSE [i \in 1..8 |-> 255 - BytesOf(-n - 1, 8)[i]]

\* x < 0 and x <= 0 on an int64.
Negative(x) == x[8] >= 128
NotPositive(x) == Negative(x) \/ x = Int64Of(0)

\* The representation of x in k >= Len(x) bytes (sign extension).
Widen(x, k) ==
  [i \in 1..k |-> IF i <= Len(x) THEN x[i]
                  ELSE IF Negative(x) THEN 255 ELSE 0]

\* Sum of x[i] * y[k + 1 - i] over i in 1..j: the products that make up
\* byte k of x * y.
RECURSIVE Column(_, _, _, _)
Column(x, y, k, j) ==
  IF j = 0 THEN 0 ELSE x[j] * y[k + 1 - j] + Column(x, y, k, j - 1)

\* Bytes k..Len(x) of x * y, given the carry into byte k: the product
\* modulo 2^(8 * Len(x)).
RECURSIVE MulFrom(_, _, _, _)
MulFrom(x, y, k, carry) ==
  IF k > Len(x) THEN << >>
  ELSE LET sum == carry + Column(x, y, k, k)
       IN << sum % 256 >> \o MulFrom(x, y, k + 1, sum \div 256)

\* x * y in the width of x and y.
Mul(x, y) == MulFrom(x, y, 1, 0)

\* time.Second: 1000000000 nanoseconds.
Second == << 0, 202, 154, 59, 0, 0, 0, 0 >>

\* Values of seconds fields in a configuration file: small ones, and
\* 9223372036 (the largest number of seconds a time.Duration can hold),
\* 9223372037 and 18446744074.
MaxExactSeconds == << 4, 125, 193, 37, 2, 0, 0, 0 >>
IntervalValues ==
  { Int64Of(-1), Int64Of(0), Int64Of(1), Int64Of(60), MaxExactSeconds,
    << 5, 125, 193, 37, 2, 0, 0, 0 >>, << 10, 250, 130, 75, 4, 0, 0, 0 >> }
DefaultValues ==
  { Int64Of(0), Int64Of(60), Int64Of(300),
    << 5, 125, 193, 37, 2, 0, 0, 0 >> }

\* What GetCollectorInterval reads: c.Collectors[collectorName] (Present =
\* FALSE when the key is not in the map) and c.Monitor.DefaultIntervalSeconds.
IntervalInputs ==
  [Present : {TRUE}, Enabled : BOOLEAN, Interval : IntervalValues,
   Default : DefaultValues]
    \cup [Present : {FALSE}, Enabled : {FALSE}, Interval : {Int64Of(0)},
          Default : DefaultValues]
NoInput ==
  [Present |-> FALSE, Enabled |-> FALSE, Interval |-> Int64Of(0),
   Default |-> Int64Of(0)]

\* The goroutines that use the locks of a started service: the one that
\* runs Start (c: the collector whose task it is starting) and the task
\* loops, named by their collector (err: what runCollector returned to the
\* loop).  In LockIdle no goroutine is started yet and no lock is held.
LockThreads == {"start"} \cup CollectorSet
At(pos, c) == [at |-> pos, c |-> c, err |-> "nil"]
Select(err) == [at |-> "select", c |-> "", err |-> err]
LockIdle ==
  /\ lkPc = [t \in LockThreads |-> At("none", "")]
  /\ lkMu = "none"
  /\ lkReg = [r \in {"collectors", "notifiers"} |-> {}]

\* Nobody is calling GetCollectorInterval.
IntervalIdle == ivPc = "idle" /\ ivIn = NoInput /\ ivOut = Int64Of(0)

\* ----------------------------------------------------------------- Init
\* NewMonitorService: empty registries, empty task map, live context.
Init ==
  /\ config \in Configs
  /\ now = 0
  /\ collectorRegistry = {}
  /\ notifierRegistry = {}
  /\ collectorInited = {}
  /\ notifierInited = {}
  /\ hostPc = "idle"
  /\ todo = {}
  /\ startCalls = 0
  /\ stopCalls = 0
  /\ stopsReturned = 0
  /\ startResult = "none"
  /\ startedOk = FALSE
  /\ cancelled = FALSE
  /\ wg = 0
  /\ collectorTasks = {}
  /\ loop = [c \in CollectorSet |-> "none"]
  /\ interval = [c \in CollectorSet |-> 0]
  /\ nextTick = [c \in CollectorSet |-> 0]
  /\ tickPending = [c \in CollectorSet |-> FALSE]
  /\ callCtx = [c \in CollectorSet |-> "none"]
  /\ callStart = [c \in CollectorSet |-> 0]
  /\ late = [c \in CollectorSet |-> FALSE]
  /\ notifyArg = [c \in CollectorSet |-> << >>]
  /\ inflight = [c \in CollectorSet |-> 0]
  /\ invocations = [c \in CollectorSet |-> 0]
  /\ invokedAt = [c \in CollectorSet |-> {}]
  /\ overrun = [c \in CollectorSet |-> FALSE]
  /\ loopStart = [c \in CollectorSet |-> 0]
  /\ lastOutcome = [c \in CollectorSet |-> "none"]
  /\ cleanupCount = [c \in CollectorSet |-> 0]
  /\ closeCount = [n \in NotifierSet |-> 0]
  /\ stopErrs = FALSE
  /\ pPc = "off"
  /\ pResults = << >>
  /\ pNotified = << >>
  /\ pReturn = NilError
  /\ rMap = [n \in RegNames |-> 0]
  /\ rMu = [writer |-> 0, readers |-> {}]
  /\ rPc = [t \in Threads |-> "idle"]
  /\ rOp = [t \in Threads |-> NoOp]
  /\ rRet = [t \in Threads |-> NoRet]
  /\ rWins = [n \in RegNames |-> {}]
  /\ IntervalIdle
  /\ LockIdle

\* ------------------------------------------------------------ registries
\* A Register that accepts a name that is already present.
Register_idempotent(reg, name) ==
  IF name = "" THEN [err |-> TRUE, reg |-> reg]
  ELSE [err |-> FALSE, reg |-> reg \cup {name}]

\* Registry.Register: an empty name and a name already present are errors
\* and leave the map unchanged; otherwise the name is inserted.
Register(reg, name) ==
  IF name = "" THEN [err |-> TRUE, reg |-> reg]
  ELSE IF name \in reg THEN [err |-> TRUE, reg |-> reg]
  ELSE [err |-> FALSE, reg |-> reg \cup {name}]

\* Registry.Get: the second result, exists.
Get(reg, name) == name \in reg

\* A registration that logs a failed Register and goes on.
RegisterAll_ignoreErrors(reg, names, i) ==
  [err |-> FALSE,
   reg |-> reg \cup ({names[k] : k \in i..Len(names)} \ {""})]

\* registerCollectors / registerNotifiers: Register each known plugin in
\* source order, returning on the first error.
RECURSIVE RegisterAll(_, _, _)
RegisterAll(reg, names, i) ==
  IF i > Len(names) THEN [err |-> FALSE, reg |-> reg]
  ELSE LET r == Register(reg, names[i])
       IN IF r.err THEN r ELSE RegisterAll(r.reg, names, i + 1)

\* ---------------------------------------------------------------- config
\* Keys of the map Config.Collectors.
CollectorKeys == {n \in ConfigNames : config.Collectors[n].Present}

\* Config.GetCollectorInterval, in seconds (the code multiplies the number
\* of seconds by time.Second, which is exact for the intervals of Configs;
\* GetCollectorIntervalDuration below carries the multiplication out).
GetCollectorInterval(collectorName) ==
  LET collector == config.Collectors[collectorName]
  IN IF ~collector.Present \/ ~collector.Enabled THEN 0
     ELSE IF collector.Interval <= 0 THEN config.DefaultIntervalSeconds
     ELSE collector.Interval

\* Results a plugin's Init can return (TRUE = nil).  MemoryCollector.Init
\* always returns nil; DiskCollector.Init and EmailNotifier.Init reject
\* settings they cannot use.
InitResults(name) == IF name = "memory" THEN {TRUE} ELSE BOOLEAN

\* ----------------------------------------------------------------- Start
\* The host calls Start.
CallStart ==
  /\ hostPc = "idle"
  /\ startCalls < MaxStartCalls
  /\ startCalls' = startCalls + 1
  /\ hostPc' = "registerCollectors"
  /\ UNCHANGED << lockVars, ivVars, regVars, pipeVars,
                  config, now, registryVars, todo, stopCalls, stopsReturned,
                  startResult, startedOk, cancelled, wg, collectorTasks, loopVars,
                  stopVars >>

\* Start returns err.
StartFails ==
  /\ hostPc' = "idle"
  /\ startResult' = "error"
  /\ startedOk' = startedOk
  /\ todo' = {}

\* Start: s.registerCollectors().
RegisterCollectors ==
  /\ hostPc = "registerCollectors"
  /\ LET r == RegisterAll(collectorRegistry, KnownCollectors, 1)
     IN /\ collectorRegistry' = r.reg
        /\ IF r.err THEN StartFails
           ELSE /\ hostPc' = "registerNotifiers"
                /\ UNCHANGED << startResult, startedOk, todo >>
  /\ UNCHANGED << lockVars, ivVars, regVars, pipeVars,
                  config, now, notifierRegistry, collectorInited,
                  notifierInited, startCalls, stopCalls, stopsReturned,
                  cancelled, wg, collectorTasks, loopVars, stopVars >>

\* Start: s.registerNotifiers(), then the range over s.config.Collectors of
\* initializeCollectors begins.
RegisterNotifiers ==
  /\ hostPc = "registerNotifiers"
  /\ LET r == RegisterAll(notifierRegistry, KnownNotifiers, 1)
     IN /\ notifierRegistry' = r.reg
        /\ IF r.err THEN StartFails
           ELSE /\ hostPc' = "initializeCollectors"
                /\ todo' = CollectorKeys
                /\ UNCHANGED << startResult, startedOk >>
  /\ UNCHANGED << lockVars, ivVars, regVars, pipeVars,
                  config, now, collectorRegistry, collectorInited,
                  notifierInited, startCalls, stopCalls, stopsReturned,
                  cancelled, wg, collectorTasks, loopVars, stopVars >>

\* An initializeCollectors that logs a failed Init and goes on to the next
\* collector.
InitializeCollector_skipOnError(name) ==
  /\ hostPc = "initializeCollectors"
  /\ name \in todo
  /\ IF ~config.Collectors[name].Enabled \/ ~Get(collectorRegistry, name)
     THEN /\ todo' = todo \ {name}
          /\ UNCHANGED << collectorInited, hostPc, startResult, startedOk >>
     ELSE \E ok \in InitResults(name) :
            /\ collectorInited' = IF ok THEN collectorInited \cup {name}
                                  ELSE collectorInited
            /\ todo' = todo \ {name}
            /\ UNCHANGED << hostPc, startResult, startedOk >>
  /\ UNCHANGED << lockVars, ivVars, regVars, pipeVars,
                  config, now, collectorRegistry, notifierRegistry,
                  notifierInited, startCalls, stopCalls, stopsReturned,
                  cancelled, wg, collectorTasks, loopVars, stopVars >>

\* An initializeCollectors that fails on an enabled name that is not
\* registered.
InitializeCollector_failOnMissing(name) ==
  /\ hostPc = "initializeCollectors"
  /\ name \in todo
  /\ IF ~config.Collectors[name].Enabled
     THEN /\ todo' = todo \ {name}
          /\ UNCHANGED << collectorInited, hostPc, startResult, startedOk >>
     ELSE IF ~Get(collectorRegistry, name)
     THEN /\ StartFails
          /\ UNCHANGED collectorInited
     ELSE \E ok \in InitResults(name) :
            IF ok
            THEN /\ collectorInited' = collectorInited \cup {name}
                 /\ todo' = todo \ {name}
                 /\ UNCHANGED << hostPc, startResult, startedOk >>
            ELSE /\ StartFails
                 /\ UNCHANGED collectorInited
  /\ UNCHANGED << lockVars, ivVars, regVars, pipeVars,
                  config, now, collectorRegistry, notifierRegistry,
                  notifierInited, startCalls, stopCalls, stopsReturned,
                  cancelled, wg, collectorTasks, loopVars, stopVars >>

\* initializeCollectors: one iteration of the range over the map (Go visits
\* the keys in an unspecified order).
InitializeCollector(name) ==
  /\ hostPc = "initializeCollectors"
  /\ name \in todo
  /\ IF ~config.Collectors[name].Enabled \/ ~Get(collectorRegistry, name)
     THEN /\ todo' = todo \ {name}
          /\ UNCHANGED << collectorInited, hostPc, startResult, startedOk >>
     ELSE \E ok \in InitResults(name) :
            IF ok
            THEN /\ collectorInited' = collectorInited \cup {name}
                 /\ todo' = todo \ {name}
                 /\ UNCHANGED << hostPc, startResult, startedOk >>
            ELSE /\ StartFails
                 /\ UNCHANGED collectorInited
  /\ UNCHANGED << lockVars, ivVars, regVars, pipeVars,
                  config, now, collectorRegistry, notifierRegistry,
                  notifierInited, startCalls, stopCalls, stopsReturned,
                  cancelled, wg, collectorTasks, loopVars, stopVars >>

\* initializeCollectors returns nil once the range is exhausted.
InitializeCollectorsDone ==
  /\ hostPc = "initializeCollectors"
  /\ todo = {}
  /\ hostPc' = "initializeNotifiers"
  /\ UNCHANGED << lockVars, ivVars, regVars, pipeVars,
                  config, now, registryVars, todo, startCalls, stopCalls,
                  stopsReturned, startResult, startedOk, cancelled, wg, collectorTasks,
                  loopVars, stopVars >>

\* A Start that logs a failed Init of the email notifier and goes on to
\* schedule the collectors.
InitializeNotifiers_continueOnError ==
  /\ hostPc = "initializeNotifiers"
  /\ IF ~config.EmailEnabled
     THEN /\ hostPc' = "startCollectorTasks"
          /\ todo' = CollectorKeys
          /\ UNCHANGED << notifierInited, startResult, startedOk >>
     ELSE IF ~Get(notifierRegistry, "email")
     THEN /\ StartFails
          /\ UNCHANGED notifierInited
     ELSE \E ok \in InitResults("email") :
            /\ notifierInited' = IF ok THEN notifierInited \cup {"email"}
                                 ELSE notifierInited
            /\ hostPc' = "startCollectorTasks"
            /\ todo' = CollectorKeys
            /\ UNCHANGED << startResult, startedOk >>
  /\ UNCHANGED << lockVars, ivVars, regVars, pipeVars,
                  config, now, collectorRegistry, notifierRegistry,
                  collectorInited, startCalls, stopCalls, stopsReturned,
                  cancelled, wg, collectorTasks, loopVars, stopVars >>

\* Start: s.initializeNotifiers(), then the range over s.config.Collectors
\* of startCollectorTasks begins.
InitializeNotifiers ==
  /\ hostPc = "initializeNotifiers"
  /\ IF ~config.EmailEnabled
     THEN /\ hostPc' = "startCollectorTasks"
          /\ todo' = CollectorKeys
          /\ UNCHANGED << notifierInited, startResult, startedOk >>
     ELSE IF ~Get(notifierRegistry, "email")
     THEN /\ StartFails
          /\ UNCHANGED notifierInited
     ELSE \E ok \in InitResults("email") :
            IF ok
            THEN /\ notifierInited' = notifierInited \cup {"email"}
                 /\ hostPc' = "startCollectorTasks"
                 /\ todo' = CollectorKeys
                 /\ UNCHANGED << startResult, startedOk >>
            ELSE /\ StartFails
                 /\ UNCHANGED notifierInited
  /\ UNCHANGED << lockVars, ivVars, regVars, pipeVars,
                  config, now, collectorRegistry, notifierRegistry,
                  collectorInited, startCalls, stopCalls, stopsReturned,
                  cancelled, wg, collectorTasks, loopVars, stopVars >>

\* startCollectorTask without s.wg.Add(1).
startCollectorTask_noAdd(c, d) ==
  /\ collectorTasks' = collectorTasks \cup {c}
  /\ wg' = wg
  /\ loop' = [loop EXCEPT ![c] = "spawned"]
  /\ interval' = [interval EXCEPT ![c] = d]

\* A startCollectorTask that does not record the cancel handle.
startCollectorTask_noRecord(c, d) ==
  /\ collectorTasks' = collectorTasks
  /\ wg' = wg + 1
  /\ loop' = [loop EXCEPT ![c] = "spawned"]
  /\ interval' = [interval EXCEPT ![c] = d]

\* startCollectorTask: record the cancel handle under the collector's name,
\* s.wg.Add(1), spawn the goroutine; always returns nil.
startCollectorTask(c, d) ==
  /\ collectorTasks' = collectorTasks \cup {c}
  /\ wg' = wg + 1
  /\ loop' = [loop EXCEPT ![c] = "spawned"]
  /\ interval' = [interval EXCEPT ![c] = d]

\* A startCollectorTasks that skips a collector whose interval is invalid.
StartCollectorTasksStep_skipInvalid(name) ==
  /\ hostPc = "startCollectorTasks"
  /\ name \in todo
  /\ IF \/ ~config.Collectors[name].Enabled \/ ~Get(collectorRegistry, name)
        \/ GetCollectorInterval(name) <= 0
     THEN /\ todo' = todo \ {name}
          /\ UNCHANGED << hostPc, startResult, startedOk, collectorTasks, wg, loop,
                          interval >>
     ELSE /\ startCollectorTask(name, GetCollectorInterval(name))
          /\ todo' = todo \ {name}
          /\ UNCHANGED << hostPc, startResult, startedOk >>
  /\ UNCHANGED << lockVars, ivVars, regVars, pipeVars,
                  config, now, registryVars, startCalls, stopCalls,
                  stopsReturned, cancelled, nextTick, tickPending, callCtx,
                  callStart, late, notifyArg, inflight, invocations, invokedAt,
                  overrun, loopStart, lastOutcome, stopVars >>

\* startCollectorTasks: one iteration of the range over the map.
StartCollectorTasksStep(name) ==
  /\ hostPc = "startCollectorTasks"
  /\ name \in todo
  /\ IF ~config.Collectors[name].Enabled \/ ~Get(collectorRegistry, name)
     THEN /\ todo' = todo \ {name}
          /\ UNCHANGED << hostPc, startResult, startedOk, collectorTasks, wg, loop,
                          interval >>
     ELSE IF GetCollectorInterval(name) <= 0
     THEN /\ StartFails
          /\ UNCHANGED << collectorTasks, wg, loop, interval >>
     ELSE /\ startCollectorTask(name, GetCollectorInterval(name))
          /\ todo' = todo \ {name}
          /\ UNCHANGED << hostPc, startResult, startedOk >>
  /\ UNCHANGED << lockVars, ivVars, regVars, pipeVars,
                  config, now, registryVars, startCalls, stopCalls,
                  stopsReturned, cancelled, nextTick, tickPending, callCtx,
                  callStart, late, notifyArg, inflight, invocations, invokedAt,
                  overrun, loopStart, lastOutcome, stopVars >>

\* startCollectorTasks returns nil and Start returns nil.
StartCollectorTasksDone ==
  /\ hostPc = "startCollectorTasks"
  /\ todo = {}
  /\ hostPc' = "idle"
  /\ startResult' = "ok"
  /\ startedOk' = TRUE
  /\ UNCHANGED << lockVars, ivVars, regVars, pipeVars,
                  config, now, registryVars, todo, startCalls, stopCalls,
                  stopsReturned, cancelled, wg, collectorTasks, loopVars,
                  stopVars >>

\* ------------------------------------------------------------ task loops
Running == {"spawned", "collecting", "notifying", "wait"}
TickerOn == {"collecting", "notifying", "wait"}

\* processResults: the entries with IsHealthy = false, in order.
processResults(results) == SelectSeq(results, LAMBDA h : ~h)

\* Results of a Collect call: the returned batch and whether err is nil.
\* MemoryCollector returns one Result or (nil, err); DiskCollector returns
\* one Result per path, or the Results gathered so far with an error.
CollectBatches(c, ok) ==
  IF c = "memory"
  THEN (IF ok THEN {b \in Batches : Len(b) = 1} ELSE {<< >>})
  ELSE (IF ok THEN {b \in Batches : Len(b) >= 1} ELSE Batches)

\* A context derived with a timeout from the task context, as runCollector
\* and sendNotifications derive theirs: already done if s.ctx is cancelled.
NewCtx == IF cancelled THEN "cancelledAtStart" ELSE "live"

\* runCollector begins: the collection context is derived from the task
\* context (itself derived from s.ctx) with the 30 second timeout, and
\* collector.Collect is called on the loop's own goroutine.
BeginInvocation(c) ==
  /\ loop' = [loop EXCEPT ![c] = "collecting"]
  /\ callCtx' = [callCtx EXCEPT ![c] = NewCtx]
  /\ callStart' = [callStart EXCEPT ![c] = now]
  /\ inflight' = [inflight EXCEPT ![c] = @ + 1]
  /\ invocations' = [invocations EXCEPT ![c] = @ + 1]
  /\ invokedAt' = [invokedAt EXCEPT ![c] = @ \cup {now}]
  /\ lastOutcome' = [lastOutcome EXCEPT ![c] = "none"]

\* A goroutine that goes to its select without the immediate runCollector.
LoopBegin_waitFirst(c) ==
  /\ loop[c] = "spawned"
  /\ loopStart' = [loopStart EXCEPT ![c] = now]
  /\ nextTick' = [nextTick EXCEPT ![c] = now + interval[c]]
  /\ loop' = [loop EXCEPT ![c] = "wait"]
  /\ UNCHANGED << lockVars, ivVars, regVars, pipeVars,
                  config, now, registryVars, hostVars, cancelled, wg,
                  collectorTasks, interval, tickPending, late, notifyArg,
                  overrun, lastOutcome, stopVars, callCtx,
                  callStart, inflight, invocations, invokedAt >>

\* The goroutine starts: time.NewTicker(interval), then the immediate
\* runCollector before the for/select.
LoopBegin(c) ==
  /\ loop[c] = "spawned"
  /\ loopStart' = [loopStart EXCEPT ![c] = now]
  /\ nextTick' = [nextTick EXCEPT ![c] = now + interval[c]]
  /\ BeginInvocation(c)
  /\ UNCHANGED << lockVars, ivVars, regVars, pipeVars,
                  config, now, registryVars, hostVars, cancelled, wg,
                  collectorTasks, interval, tickPending, late, notifyArg,
                  overrun, stopVars >>

\* A loop that returns from its goroutine when runCollector fails.
ReturnToSelect_exitOnError(c, outcome) ==
  /\ loop' = [loop EXCEPT ![c] = IF outcome = "ok" THEN "wait" ELSE "exited"]
  /\ lastOutcome' = [lastOutcome EXCEPT ![c] = outcome]
  /\ inflight' = [inflight EXCEPT ![c] = @ - 1]

\* runCollector returns to the loop, which logs the error if any and goes
\* to its select.
ReturnToSelect(c, outcome) ==
  /\ loop' = [loop EXCEPT ![c] = "wait"]
  /\ lastOutcome' = [lastOutcome EXCEPT ![c] = outcome]
  /\ inflight' = [inflight EXCEPT ![c] = @ - 1]

\* collector.Collect returns.  With an error runCollector returns at once;
\* otherwise processResults runs and, if a result is unhealthy,
\* sendNotifications calls the email notifier when it is enabled and
\* registered.  A collector returns ctx.Err() only if its context is done.
CollectReturn(c) ==
  /\ loop[c] = "collecting"
  /\ \/ /\ callCtx[c] # "live"
        /\ ReturnToSelect(c, "collectErr")
        /\ callCtx' = [callCtx EXCEPT ![c] = "none"]
        /\ UNCHANGED << callStart, notifyArg >>
     \/ /\ \E results \in CollectBatches(c, FALSE) : ReturnToSelect(c, "collectErr")
        /\ callCtx' = [callCtx EXCEPT ![c] = "none"]
        /\ UNCHANGED << callStart, notifyArg >>
     \/ \E results \in CollectBatches(c, TRUE) :
          LET unhealthyResults == processResults(results)
          IN IF Len(unhealthyResults) = 0
             THEN /\ ReturnToSelect(c, "ok")
                  /\ callCtx' = [callCtx EXCEPT ![c] = "none"]
                  /\ UNCHANGED << callStart, notifyArg >>
             ELSE IF config.EmailEnabled /\ Get(notifierRegistry, "email")
             THEN /\ loop' = [loop EXCEPT ![c] = "notifying"]
                  /\ callCtx' = [callCtx EXCEPT ![c] = NewCtx]
                  /\ callStart' = [callStart EXCEPT ![c] = now]
                  /\ notifyArg' = [notifyArg EXCEPT ![c] = unhealthyResults]
                  /\ UNCHANGED << lastOutcome, inflight >>
             ELSE /\ ReturnToSelect(c, "ok")
                  /\ callCtx' = [callCtx EXCEPT ![c] = "none"]
                  /\ UNCHANGED << callStart, notifyArg >>
  /\ UNCHANGED << lockVars, ivVars, regVars, pipeVars,
                  config, now, registryVars, hostVars, cancelled, wg,
                  collectorTasks, interval, nextTick, tickPending, late,
                  invocations, invokedAt, overrun, loopStart, stopVars >>

\* notifier.Notify returns; sendNotifications returns the aggregate error
\* or nil, and so do processResults and runCollector.
NotifyReturn(c) ==
  /\ loop[c] = "notifying"
  /\ \E ok \in BOOLEAN : ReturnToSelect(c, IF ok THEN "ok" ELSE "notifyErr")
  /\ callCtx' = [callCtx EXCEPT ![c] = "none"]
  /\ notifyArg' = [notifyArg EXCEPT ![c] = << >>]
  /\ UNCHANGED << lockVars, ivVars, regVars, pipeVars,
                  config, now, registryVars, hostVars, cancelled, wg,
                  collectorTasks, interval, nextTick, tickPending, callStart,
                  late, invocations, invokedAt, overrun, loopStart, stopVars >>

\* A select that can return from the goroutine without the context being
\* done.
SelectDone_spontaneous(c) ==
  /\ loop[c] = "wait"
  /\ loop' = [loop EXCEPT ![c] = "exited"]
  /\ wg' = wg - 1
  /\ lastOutcome' = [lastOutcome EXCEPT ![c] = "none"]
  /\ UNCHANGED << lockVars, ivVars, regVars, pipeVars,
                  config, now, registryVars, hostVars, cancelled,
                  collectorTasks, interval, nextTick, tickPending, callCtx,
                  callStart, late, notifyArg, inflight, invocations, invokedAt,
                  overrun, loopStart, stopVars >>

\* select, case <-taskCtx.Done(): the goroutine returns; the deferred
\* ticker.Stop() and s.wg.Done() run.
SelectDone(c) ==
  /\ loop[c] = "wait"
  /\ cancelled
  /\ loop' = [loop EXCEPT ![c] = "exited"]
  /\ wg' = wg - 1
  /\ lastOutcome' = [lastOutcome EXCEPT ![c] = "none"]
  /\ UNCHANGED << lockVars, ivVars, regVars, pipeVars,
                  config, now, registryVars, hostVars, cancelled,
                  collectorTasks, interval, nextTick, tickPending, callCtx,
                  callStart, late, notifyArg, inflight, invocations, invokedAt,
                  overrun, loopStart, stopVars >>

\* A tick that is handled without waiting for the loop to be at its select.
TickReady_async(c) == loop[c] \in TickerOn /\ tickPending[c]

\* The select's tick case is ready: the goroutine is at its select (the
\* loop body is synchronous) and ticker.C holds a tick.
TickReady(c) == loop[c] = "wait" /\ tickPending[c]

\* A tick case that waits until no other collector is being run.
SelectTick_serial(c) ==
  /\ TickReady(c)
  /\ \A d \in CollectorSet \ {c} : loop[d] \notin {"collecting", "notifying"}
  /\ tickPending' = [tickPending EXCEPT ![c] = FALSE]
  /\ BeginInvocation(c)
  /\ UNCHANGED << lockVars, ivVars, regVars, pipeVars,
                  config, now, registryVars, hostVars, cancelled, wg,
                  collectorTasks, interval, nextTick, late, notifyArg, overrun,
                  loopStart, stopVars >>

\* select, case <-ticker.C: runCollector.  When taskCtx.Done() is ready as
\* well, Go's select picks either case.
SelectTick(c) ==
  /\ TickReady(c)
  /\ tickPending' = [tickPending EXCEPT ![c] = FALSE]
  /\ BeginInvocation(c)
  /\ UNCHANGED << lockVars, ivVars, regVars, pipeVars,
                  config, now, registryVars, hostVars, cancelled, wg,
                  collectorTasks, interval, nextTick, late, notifyArg, overrun,
                  loopStart, stopVars >>

\* ------------------------------------------------------------------ time
\* A control step is enabled: the clock does not advance past it.
Urgent ==
  \/ hostPc \notin {"idle", "wait"}
  \/ \E c \in CollectorSet :
       \/ loop[c] = "spawned"
       \/ loop[c] = "wait" /\ (tickPending[c] \/ cancelled)

\* Deadline of the context of the plugin call c's loop is in.
Deadline(c) ==
  callStart[c] + (IF loop[c] = "notifying" THEN NotifyTimeout
                  ELSE CollectTimeout)

\* The ticker of c fires when the clock reaches t.
Fires(c, t) == loop[c] \in TickerOn /\ t >= nextTick[c]

\* The clock advances by TimeStep: tickers that are due send on their
\* channel (a tick is dropped when the channel still holds one), and the
\* deadline of a collection context that is due expires.
AdvanceTime ==
  /\ startCalls >= 1
  /\ ~Urgent
  /\ now + TimeStep <= MaxTime
  /\ now' = now + TimeStep
  /\ tickPending' = [c \in CollectorSet |-> tickPending[c] \/ Fires(c, now')]
  /\ nextTick' = [c \in CollectorSet |->
                    IF Fires(c, now') THEN nextTick[c] + interval[c]
                    ELSE nextTick[c]]
  /\ overrun' = [c \in CollectorSet |->
                   overrun[c] \/ (Fires(c, now') /\ loop[c] # "wait")]
  /\ callCtx' = [c \in CollectorSet |->
                   IF callCtx[c] = "live" /\ now' >= Deadline(c)
                   THEN "expired" ELSE callCtx[c]]
  /\ late' = [c \in CollectorSet |->
                late[c] \/ (loop[c] \in {"collecting", "notifying"}
                              /\ now' > Deadline(c))]
  /\ UNCHANGED << lockVars, ivVars, regVars, pipeVars,
                  config, registryVars, hostVars, cancelled, wg,
                  collectorTasks, loop, interval, callStart, notifyArg,
                  inflight, invocations, invokedAt, loopStart, lastOutcome, stopVars >>

\* ------------------------------------------------------------------ Stop
\* A collection context that is not derived from s.ctx.
CancelCtx_detached(ctxState) == ctxState

\* s.cancel() seen from a collection context: runCollector derives it from
\* the task context, which startCollectorTask derives from s.ctx, so a
\* context that is still live becomes cancelled.
CancelCtx(ctxState) ==
  IF ctxState = "live" THEN "cancelledInFlight" ELSE ctxState

\* The host calls Stop, before or after any call of Start: s.cancel()
\* cancels s.ctx and with it every context derived from it.
CallStop ==
  /\ hostPc = "idle"
  /\ stopCalls < MaxStopCalls
  /\ stopCalls' = stopCalls + 1
  /\ cancelled' = TRUE
  /\ callCtx' = [c \in CollectorSet |-> CancelCtx(callCtx[c])]
  /\ hostPc' = "wait"
  /\ stopErrs' = FALSE
  /\ UNCHANGED << lockVars, ivVars, regVars, pipeVars,
                  config, now, registryVars, todo, startCalls, stopsReturned,
                  startResult, startedOk, wg, collectorTasks, loop, interval, nextTick,
                  tickPending, callStart, late, notifyArg, inflight, invocations,
                  invokedAt, overrun, loopStart, lastOutcome, cleanupCount,
                  closeCount >>

\* s.wg.Wait() that returns at once.
WaitReturns_noWait == TRUE

\* s.wg.Wait() returns: the counter is zero.
WaitReturns == wg = 0

\* A Stop that releases only the collectors that have a task.
StopWait_onlyScheduled ==
  /\ hostPc = "wait"
  /\ WaitReturns
  /\ hostPc' = "cleanup"
  /\ todo' = collectorTasks
  /\ UNCHANGED << lockVars, ivVars, regVars, pipeVars,
                  config, now, registryVars, startCalls, stopCalls,
                  stopsReturned, startResult, startedOk, cancelled, wg, collectorTasks,
                  loopVars, stopVars >>

\* Stop: s.wg.Wait() returns, then s.collectorRegistry.GetAll().
StopWait ==
  /\ hostPc = "wait"
  /\ WaitReturns
  /\ hostPc' = "cleanup"
  /\ todo' = collectorRegistry
  /\ UNCHANGED << lockVars, ivVars, regVars, pipeVars,
                  config, now, registryVars, startCalls, stopCalls,
                  stopsReturned, startResult, startedOk, cancelled, wg, collectorTasks,
                  loopVars, stopVars >>

\* Results a plugin's Cleanup or Close can return (TRUE = nil): the
\* Collector and Notifier interfaces let them return an error (the plugins
\* registered here have nothing to release).
ReleaseResults == BOOLEAN

\* A Stop that gives up on the collectors once a Cleanup fails.
StopCleanup_abortOnError(c) ==
  /\ hostPc = "cleanup"
  /\ c \in todo
  /\ \E ok \in ReleaseResults :
       /\ stopErrs' = (stopErrs \/ ~ok)
       /\ todo' = IF ok THEN todo \ {c} ELSE {}
  /\ cleanupCount' = [cleanupCount EXCEPT ![c] = @ + 1]
  /\ UNCHANGED << lockVars, ivVars, regVars, pipeVars,
                  config, now, registryVars, hostPc, startCalls, stopCalls,
                  stopsReturned, startResult, startedOk, cancelled, wg, collectorTasks,
                  loopVars, closeCount >>

\* Stop: c.Cleanup() for one collector of the slice; an error is logged and
\* the range goes on.
StopCleanup(c) ==
  /\ hostPc = "cleanup"
  /\ c \in todo
  /\ \E ok \in ReleaseResults : stopErrs' = (stopErrs \/ ~ok)
  /\ todo' = todo \ {c}
  /\ cleanupCount' = [cleanupCount EXCEPT ![c] = @ + 1]
  /\ UNCHANGED << lockVars, ivVars, regVars, pipeVars,
                  config, now, registryVars, hostPc, startCalls, stopCalls,
                  stopsReturned, startResult, startedOk, cancelled, wg, collectorTasks,
                  loopVars, closeCount >>

\* Stop: the collectors are done, s.notifierRegistry.GetAll().
StopCleanupDone ==
  /\ hostPc = "cleanup"
  /\ todo = {}
  /\ hostPc' = "close"
  /\ todo' = notifierRegistry
  /\ UNCHANGED << lockVars, ivVars, regVars, pipeVars,
                  config, now, registryVars, startCalls, stopCalls,
                  stopsReturned, startResult, startedOk, cancelled, wg, collectorTasks,
                  loopVars, stopVars >>

\* Stop: n.Close() for one notifier of the slice; an error is logged and
\* the range goes on.
StopClose(n) ==
  /\ hostPc = "close"
  /\ n \in todo
  /\ \E ok \in ReleaseResults : stopErrs' = (stopErrs \/ ~ok)
  /\ todo' = todo \ {n}
  /\ closeCount' = [closeCount EXCEPT ![n] = @ + 1]
  /\ UNCHANGED << lockVars, ivVars, regVars, pipeVars,
                  config, now, registryVars, hostPc, startCalls, stopCalls,
                  stopsReturned, startResult, startedOk, cancelled, wg, collectorTasks,
                  loopVars, cleanupCount >>

\* Stop returns.
StopReturn ==
  /\ hostPc = "close"
  /\ todo = {}
  /\ hostPc' = "idle"
  /\ stopsReturned' = stopsReturned + 1
  /\ UNCHANGED << lockVars, ivVars, regVars, pipeVars,
                  config, now, registryVars, todo, startCalls, stopCalls,
                  startResult, startedOk, cancelled, wg, collectorTasks, loopVars,
                  stopVars >>

\* --------------------------------------------------------- specification
Next ==
  \/ CallStart
  \/ RegisterCollectors
  \/ RegisterNotifiers
  \/ \E name \in ConfigNames : InitializeCollector(name)
  \/ InitializeCollectorsDone
  \/ InitializeNotifiers
  \/ \E name \in ConfigNames : StartCollectorTasksStep(name)
  \/ StartCollectorTasksDone
  \/ \E c \in CollectorSet : LoopBegin(c)
  \/ \E c \in CollectorSet : CollectReturn(c)
  \/ \E c \in CollectorSet : NotifyReturn(c)
  \/ \E c \in CollectorSet : SelectDone(c)
  \/ \E c \in CollectorSet : SelectTick(c)
  \/ AdvanceTime
  \/ CallStop
  \/ StopWait
  \/ \E c \in CollectorSet : StopCleanup(c)
  \/ StopCleanupDone
  \/ \E n \in NotifierSet : StopClose(n)
  \/ StopReturn

Spec == Init /\ [][Next]_vars

\* The Go scheduler runs every goroutine that can take a step: the host
\* thread inside Stop and each task loop at its select; when the tick and
\* Done cases are both ready the select picks one at random, so Done is
\* picked eventually.  Nothing makes a plugin's Collect or Notify return.
Fairness ==
  /\ WF_vars(StopWait)
  /\ WF_vars(StopCleanupDone)
  /\ WF_vars(StopReturn)
  /\ \A c \in CollectorSet : WF_vars(StopCleanup(c))
  /\ \A n \in NotifierSet : WF_vars(StopClose(n))
  /\ \A c \in CollectorSet : WF_vars(LoopBegin(c))
  /\ \A c \in CollectorSet : SF_vars(SelectDone(c))

FairSpec == Spec /\ Fairness

\* ------------------------------------------------- the result pipeline
\* processResults and sendNotifications as functions of the batch, the
\* configuration, the notifier registry and the outcome of Notify.

\* A selection that also looks at the measurement of a result.
unhealthyResults_byDetail(results) ==
  SelectSeq(results, LAMBDA r : ~r.IsHealthy /\ r.Detail = 1)

\* processResults, the loop over results: the entries with IsHealthy =
\* false are appended to unhealthyResults in order.
unhealthyResults(results) == SelectSeq(results, LAMBDA r : ~r.IsHealthy)

\* A processResults that returns only when the batch is empty.
NothingToDo_emptyOnly(results, unhealthy) == Len(results) = 0

\* processResults: "if len(unhealthyResults) == 0 { return nil }".
NothingToDo(results, unhealthy) == Len(unhealthy) = 0

\* A sendNotifications that logs the errors it gathered and returns nil.
sendNotifications_swallow(results, ok) ==
  IF config.EmailEnabled /\ Get(notifierRegistry, "email")
  THEN [calls |-> << [notifier |-> "email", results |-> results, ok |-> ok] >>,
        ret |-> NilError]
  ELSE [calls |-> << >>, ret |-> NilError]

\* sendNotifications: the email notifier is called if it is enabled and
\* registered; an error of Notify is appended to errs; the result is nil
\* if errs is empty and otherwise an error listing every gathered error.
\* ok is the outcome of email's Notify.
sendNotifications(results, ok) ==
  IF config.EmailEnabled /\ Get(notifierRegistry, "email")
  THEN LET errs == IF ok THEN << >> ELSE << "email" >>
       IN [calls |-> << [notifier |-> "email", results |-> results,
                         ok |-> ok] >>,
           ret |-> IF Len(errs) > 0 THEN NotificationErrors(errs)
                   ELSE NilError]
  ELSE [calls |-> << >>, ret |-> NilError]

\* The registries as Start leaves them, s.config, and a batch handed to
\* processResults by runCollector.
PipelineInit ==
  /\ config \in Configs
  /\ now = 0
  /\ collectorRegistry = CollectorSet
  /\ notifierRegistry = NotifierSet
  /\ collectorInited = {}
  /\ notifierInited = {}
  /\ hostPc = "idle"
  /\ todo = {}
  /\ startCalls = 0
  /\ stopCalls = 0
  /\ stopsReturned = 0
  /\ startResult = "none"
  /\ startedOk = FALSE
  /\ cancelled = FALSE
  /\ wg = 0
  /\ collectorTasks = {}
  /\ loop = [c \in CollectorSet |-> "none"]
  /\ interval = [c \in CollectorSet |-> 0]
  /\ nextTick = [c \in CollectorSet |-> 0]
  /\ tickPending = [c \in CollectorSet |-> FALSE]
  /\ callCtx = [c \in CollectorSet |-> "none"]
  /\ callStart = [c \in CollectorSet |-> 0]
  /\ late = [c \in CollectorSet |-> FALSE]
  /\ notifyArg = [c \in CollectorSet |-> << >>]
  /\ inflight = [c \in CollectorSet |-> 0]
  /\ invocations = [c \in CollectorSet |-> 0]
  /\ invokedAt = [c \in CollectorSet |-> {}]
  /\ overrun = [c \in CollectorSet |-> FALSE]
  /\ loopStart = [c \in CollectorSet |-> 0]
  /\ lastOutcome = [c \in CollectorSet |-> "none"]
  /\ cleanupCount = [c \in CollectorSet |-> 0]
  /\ closeCount = [n \in NotifierSet |-> 0]
  /\ stopErrs = FALSE
  /\ pPc = "call"
  /\ pResults \in ResultBatches
  /\ pNotified = << >>
  /\ pReturn = NilError
  /\ rMap = [n \in RegNames |-> 0]
  /\ rMu = [writer |-> 0, readers |-> {}]
  /\ rPc = [t \in Threads |-> "idle"]
  /\ rOp = [t \in Threads |-> NoOp]
  /\ rRet = [t \in Threads |-> NoRet]
  /\ rWins = [n \in RegNames |-> {}]
  /\ IntervalIdle
  /\ LockIdle

\* The error runCollector returns when Collect fails ("collection failed").
CollectionFailed == [err |-> TRUE, refs |-> << "collect" >>]

\* A processResults that gives up before notifying once s.ctx is cancelled.
ProcessResults_checkCtx ==
  LET unhealthy == unhealthyResults(pResults)
      send == sendNotifications(unhealthy, TRUE)
  IN IF NothingToDo(pResults, unhealthy) \/ cancelled \/ Len(send.calls) = 0
     THEN /\ pPc' = "returned"
          /\ pNotified' = << >>
          /\ pReturn' = NilError
     ELSE /\ pPc' = "notifying"
          /\ pNotified' = [i \in 1..Len(send.calls) |->
                             [notifier |-> send.calls[i].notifier,
                              results |-> send.calls[i].results,
                              ctx |-> NewCtx]]
          /\ pReturn' = NilError

\* processResults up to the point where it waits: it selects the unhealthy
\* results and returns nil if there are none; otherwise sendNotifications
\* derives notifyCtx from the task context and, if the email notifier is
\* enabled and registered, calls its Notify, else returns nil.
ProcessResults ==
  LET unhealthy == unhealthyResults(pResults)
      send == sendNotifications(unhealthy, TRUE)
  IN IF NothingToDo(pResults, unhealthy) \/ Len(send.calls) = 0
     THEN /\ pPc' = "returned"
          /\ pNotified' = << >>
          /\ pReturn' = NilError
     ELSE /\ pPc' = "notifying"
          /\ pNotified' = [i \in 1..Len(send.calls) |->
                             [notifier |-> send.calls[i].notifier,
                              results |-> send.calls[i].results,
                              ctx |-> NewCtx]]
          /\ pReturn' = NilError

\* processResults(ctx, results) is called and runs until it returns or is
\* inside notifier.Notify.
ProcessResultsCall ==
  /\ pPc = "call"
  /\ ProcessResults
  /\ UNCHANGED << lockVars, ivVars, regVars, pResults, config, now,
                  registryVars, hostVars, cancelled, wg, collectorTasks,
                  loopVars, stopVars >>

\* notifier.Notify returns, and with it sendNotifications, processResults
\* and runCollector: nil, or the error that lists the failed notifiers.
NotifyDone ==
  /\ pPc = "notifying"
  /\ \E ok \in BOOLEAN :
       LET r == sendNotifications(unhealthyResults(pResults), ok)
       IN /\ pNotified' = [i \in 1..Len(r.calls) |->
                             [notifier |-> r.calls[i].notifier,
                              results |-> r.calls[i].results,
                              ctx |-> pNotified[i].ctx,
                              ok |-> r.calls[i].ok]]
          /\ pReturn' = r.ret
  /\ pPc' = "returned"
  /\ UNCHANGED << lockVars, ivVars, regVars, pResults, config, now,
                  registryVars, hostVars, cancelled, wg, collectorTasks,
                  loopVars, stopVars >>

\* Stop, on the host's goroutine, while the call is in progress: s.cancel().
CancelDuringCall ==
  /\ pPc \in {"call", "notifying"}
  /\ ~cancelled
  /\ cancelled' = TRUE
  /\ UNCHANGED << lockVars, ivVars, regVars, pipeVars, config, now,
                  registryVars, hostVars, wg, collectorTasks, loopVars,
                  stopVars >>

PipelineNext ==
  \/ ProcessResultsCall
  \/ NotifyDone
  \/ CancelDuringCall

PipelineSpec == PipelineInit /\ [][PipelineNext]_vars

\* --------------------------- one runCollector call and a concurrent Stop
\* runCollector taken step by step: pPc = "call" is now the point where
\* collector.Collect is in progress, and pResults is the batch it returns.

\* A runCollector that notifies about the results also when Collect failed.
CollectDone_keepResults ==
  /\ pPc = "call"
  /\ \E collectOk \in BOOLEAN :
       IF ~collectOk
       THEN /\ pPc' = "collectFailed"
            /\ pNotified' =
                 sendNotifications(unhealthyResults(pResults), TRUE).calls
            /\ pReturn' = CollectionFailed
       ELSE ProcessResults
  /\ UNCHANGED << lockVars, ivVars, regVars, pResults, config, now,
                  registryVars, hostVars, cancelled, wg, collectorTasks,
                  loopVars, stopVars >>

\* collector.Collect returns: with an error runCollector returns it wrapped
\* and the results are dropped; otherwise it calls processResults.
CollectDone ==
  /\ pPc = "call"
  /\ \E collectOk \in BOOLEAN :
       IF ~collectOk
       THEN /\ pPc' = "collectFailed"
            /\ pNotified' = << >>
            /\ pReturn' = CollectionFailed
       ELSE ProcessResults
  /\ UNCHANGED << lockVars, ivVars, regVars, pResults, config, now,
                  registryVars, hostVars, cancelled, wg, collectorTasks,
                  loopVars, stopVars >>

DispatchNext ==
  \/ CollectDone
  \/ NotifyDone
  \/ CancelDuringCall

DispatchSpec == PipelineInit /\ [][DispatchNext]_vars

\* ------------------------------------------- a Registry under its methods
\* The Registry type (collectors/registry.go; notifiers/registry.go has the
\* same code): Threads call Register, Get, GetAll and CollectorNames on one
\* registry.  Each method takes r.mu, runs its body and releases r.mu on
\* return (defer).
RegisterOps(ids) == [kind : {"Register"}, name : RegNames, id : ids]
GetOps == [kind : {"Get"}, name : RegNames, id : {0}]
ListOps == [kind : {"GetAll", "Names"}, name : {""}, id : {0}]

\* A thread calls a method of the registry.
RCall(t, op) ==
  /\ rPc[t] = "idle"
  /\ rOp' = [rOp EXCEPT ![t] = op]
  /\ rRet' = [rRet EXCEPT ![t] = NoRet]
  /\ rPc' = [rPc EXCEPT ![t] = "lock"]
  /\ UNCHANGED << rMap, rMu, rWins, lockVars, ivVars, pipeVars, config, now, registryVars,
                  hostVars, cancelled, wg, collectorTasks, loopVars,
                  stopVars >>

\* An r.mu.Lock() that does not exclude anybody.
CanLock_noExclusion(mu) == TRUE

\* r.mu.Lock() can return: no writer and no reader holds the mutex.
CanLock(mu) == mu.writer = 0 /\ mu.readers = {}

\* r.mu.RLock() can return: no writer holds the mutex.
CanRLock(mu) == mu.writer = 0

\* Register: r.mu.Lock() returns.
RLock(t) ==
  /\ rPc[t] = "lock"
  /\ rOp[t].kind = "Register"
  /\ CanLock(rMu)
  /\ rMu' = [rMu EXCEPT !.writer = t]
  /\ rPc' = [rPc EXCEPT ![t] = "check"]
  /\ UNCHANGED << rMap, rOp, rRet, rWins, lockVars, ivVars, pipeVars, config, now,
                  registryVars, hostVars, cancelled, wg, collectorTasks,
                  loopVars, stopVars >>

\* The mutex after the deferred r.mu.Unlock() of thread t.
Unlocked(t) == [rMu EXCEPT !.writer = IF @ = t THEN 0 ELSE @]

\* A Register that does not look for an entry with the same name.
RegisterCheck_overwrite(t) ==
  /\ rPc[t] = "check"
  /\ IF rOp[t].name = ""
     THEN /\ rRet' = [rRet EXCEPT ![t] = [NoRet EXCEPT !.err = TRUE]]
          /\ rMu' = Unlocked(t)
          /\ rPc' = [rPc EXCEPT ![t] = "idle"]
     ELSE /\ rPc' = [rPc EXCEPT ![t] = "insert"]
          /\ UNCHANGED << rRet, rMu >>
  /\ UNCHANGED << rMap, rOp, rWins, lockVars, ivVars, pipeVars, config, now, registryVars,
                  hostVars, cancelled, wg, collectorTasks, loopVars,
                  stopVars >>

\* A Register that accepts the empty name.
RegisterCheck_anyName(t) ==
  /\ rPc[t] = "check"
  /\ IF rMap[rOp[t].name] # 0
     THEN /\ rRet' = [rRet EXCEPT ![t] = [NoRet EXCEPT !.err = TRUE]]
          /\ rMu' = Unlocked(t)
          /\ rPc' = [rPc EXCEPT ![t] = "idle"]
     ELSE /\ rPc' = [rPc EXCEPT ![t] = "insert"]
          /\ UNCHANGED << rRet, rMu >>
  /\ UNCHANGED << rMap, rOp, rWins, lockVars, ivVars, pipeVars, config, now, registryVars,
                  hostVars, cancelled, wg, collectorTasks, loopVars,
                  stopVars >>

\* Register: name := collector.Name(); an empty name and a name that has
\* an entry return an error (and unlock).
RegisterCheck(t) ==
  /\ rPc[t] = "check"
  /\ IF rOp[t].name = "" \/ rMap[rOp[t].name] # 0
     THEN /\ rRet' = [rRet EXCEPT ![t] = [NoRet EXCEPT !.err = TRUE]]
          /\ rMu' = Unlocked(t)
          /\ rPc' = [rPc EXCEPT ![t] = "idle"]
     ELSE /\ rPc' = [rPc EXCEPT ![t] = "insert"]
          /\ UNCHANGED << rRet, rMu >>
  /\ UNCHANGED << rMap, rOp, rWins, lockVars, ivVars, pipeVars, config, now, registryVars,
                  hostVars, cancelled, wg, collectorTasks, loopVars,
                  stopVars >>

\* Register: r.collectors[name] = collector; return nil (and unlock).
RegisterInsert(t) ==
  /\ rPc[t] = "insert"
  /\ rMap' = [rMap EXCEPT ![rOp[t].name] = rOp[t].id]
  /\ rWins' = [rWins EXCEPT ![rOp[t].name] = @ \cup {rOp[t].id}]
  /\ rRet' = [rRet EXCEPT ![t] = NoRet]
  /\ rMu' = Unlocked(t)
  /\ rPc' = [rPc EXCEPT ![t] = "idle"]
  /\ UNCHANGED << rOp, lockVars, ivVars, pipeVars, config, now, registryVars, hostVars,
                  cancelled, wg, collectorTasks, loopVars, stopVars >>

\* Get, GetAll, CollectorNames: r.mu.RLock() returns.
RRLock(t) ==
  /\ rPc[t] = "lock"
  /\ rOp[t].kind # "Register"
  /\ CanRLock(rMu)
  /\ rMu' = [rMu EXCEPT !.readers = @ \cup {t}]
  /\ rPc' = [rPc EXCEPT ![t] = "read"]
  /\ UNCHANGED << rMap, rOp, rRet, rWins, lockVars, ivVars, pipeVars, config, now,
                  registryVars, hostVars, cancelled, wg, collectorTasks,
                  loopVars, stopVars >>

\* Names that have an entry in the map.
Registered == {n \in RegNames : rMap[n] # 0}

\* The sequences a range over the map can append up: each entry once, in
\* any order (Go does not specify the order of a range over a map).
RangeOrders ==
  {q \in [1..Cardinality(Registered) -> Registered] :
     \A i, j \in DOMAIN q : i # j => q[i] # q[j]}

\* A GetAll that appends the first entry of the range twice.
ListOf_repeatFirst(q, withInstance) ==
  [i \in 1..(Len(q) + (IF Len(q) > 0 THEN 1 ELSE 0)) |->
     LET k == IF i > Len(q) THEN 1 ELSE i
     IN [name |-> q[k], id |-> IF withInstance THEN rMap[q[k]] ELSE 0]]

\* The slice GetAll (withInstance) or CollectorNames builds from a range
\* that visits the names in the order q.
ListOf(q, withInstance) ==
  [i \in 1..Len(q) |->
     [name |-> q[i], id |-> IF withInstance THEN rMap[q[i]] ELSE 0]]

\* Get, GetAll, CollectorNames: the body, and the deferred r.mu.RUnlock().
RRead(t) ==
  /\ rPc[t] = "read"
  /\ IF rOp[t].kind = "Get"
     THEN rRet' = [rRet EXCEPT ![t] =
                     [NoRet EXCEPT !.exists = rMap[rOp[t].name] # 0,
                                   !.id = rMap[rOp[t].name]]]
     ELSE \E q \in RangeOrders :
            rRet' = [rRet EXCEPT ![t] =
                       [NoRet EXCEPT !.list = ListOf(q, rOp[t].kind = "GetAll")]]
  /\ rMu' = [rMu EXCEPT !.readers = @ \ {t}]
  /\ rPc' = [rPc EXCEPT ![t] = "idle"]
  /\ UNCHANGED << rMap, rOp, rWins, lockVars, ivVars, pipeVars, config, now, registryVars,
                  hostVars, cancelled, wg, collectorTasks, loopVars,
                  stopVars >>

\* A freshly constructed registry (NewRegistry) and idle threads.
RegistryInit == Init /\ config.DefaultIntervalSeconds = 300 /\ config.EmailEnabled

\* Threads that register and look up concurrently; each thread registers
\* an instance of its own (instance t) under any name.
RegistryNext ==
  \/ \E t \in Threads : \E op \in RegisterOps({t}) \cup GetOps : RCall(t, op)
  \/ \E t \in Threads : RLock(t)
  \/ \E t \in Threads : RegisterCheck(t)
  \/ \E t \in Threads : RegisterInsert(t)
  \/ \E t \in Threads : RRLock(t)
  \/ \E t \in Threads : RRead(t)

RegistrySpec == RegistryInit /\ [][RegistryNext]_vars

\* One thread that registers any of MaxInstances instances under any name,
\* looks up and lists.
ListNext ==
  \/ \E op \in RegisterOps(1..MaxInstances) \cup GetOps \cup ListOps :
       RCall(1, op)
  \/ RLock(1)
  \/ RegisterCheck(1)
  \/ RegisterInsert(1)
  \/ RRLock(1)
  \/ RRead(1)

ListSpec == RegistryInit /\ [][ListNext]_vars

\* ------------------------------------------- Config.GetCollectorInterval
\* GetCollectorInterval as the code computes it: the seconds are an int,
\* the result is time.Duration(interval) * time.Second in nanoseconds.
GetCollectorIntervalDuration(in) ==
  IF ~in.Present \/ ~in.Enabled THEN Int64Of(0)
  ELSE LET seconds == IF NotPositive(in.Interval) THEN in.Default
                      ELSE in.Interval
       IN Mul(seconds, Second)

\* A caller calls c.GetCollectorInterval(name) on some configuration.
IntervalCall(in) ==
  /\ ivPc = "idle"
  /\ ivIn' = in
  /\ ivPc' = "call"
  /\ UNCHANGED << ivOut, lockVars, regVars, pipeVars, config, now,
                  registryVars, hostVars, cancelled, wg, collectorTasks,
                  loopVars, stopVars >>

\* The call returns.
IntervalReturn ==
  /\ ivPc = "call"
  /\ ivOut' = GetCollectorIntervalDuration(ivIn)
  /\ ivPc' = "idle"
  /\ UNCHANGED << ivIn, lockVars, regVars, pipeVars, config, now,
                  registryVars, hostVars, cancelled, wg, collectorTasks,
                  loopVars, stopVars >>

IntervalNext ==
  \/ \E in \in IntervalInputs : IntervalCall(in)
  \/ IntervalReturn

IntervalSpec == RegistryInit /\ [][IntervalNext]_vars

\* ------------------------------------------------- locks and plugin calls
\* startCollectorTasks and the task loops at the grain of their lock uses:
\* s.mu in startCollectorTask, r.mu of the collector registry in the Get of
\* startCollectorTasks, r.mu of the notifier registry in the Get of
\* sendNotifications.  A Collect or Notify call may never return.

\* startCollectorTasks reaches collector c (enabled, no task yet) and calls
\* s.collectorRegistry.Get(name): r.mu.RLock() returns.
StartGetRLock(c) ==
  /\ lkPc["start"].at = "none"
  /\ lkPc[c].at = "none"
  /\ config.Collectors[c].Enabled
  /\ lkReg' = [lkReg EXCEPT !["collectors"] = @ \cup {"start"}]
  /\ lkPc' = [lkPc EXCEPT !["start"] = At("Get", c)]
  /\ UNCHANGED << lkMu, collectorTasks, wg, ivVars, regVars, pipeVars,
                  config, now, registryVars, hostVars, cancelled, loopVars,
                  stopVars >>

\* Get returns (deferred RUnlock); GetCollectorInterval; startCollectorTask
\* is called and is about to take s.mu.
StartGetReturn ==
  /\ lkPc["start"].at = "Get"
  /\ lkReg' = [lkReg EXCEPT !["collectors"] = @ \ {"start"}]
  /\ lkPc' = [lkPc EXCEPT !["start"] = At("lockMu", @.c)]
  /\ UNCHANGED << lkMu, collectorTasks, wg, ivVars, regVars, pipeVars,
                  config, now, registryVars, hostVars, cancelled, loopVars,
                  stopVars >>

\* startCollectorTask: s.mu.Lock() returns.
MuLock ==
  /\ lkPc["start"].at = "lockMu"
  /\ lkMu = "none"
  /\ lkMu' = "start"
  /\ lkPc' = [lkPc EXCEPT !["start"] = At("store", @.c)]
  /\ UNCHANGED << lkReg, collectorTasks, wg, ivVars, regVars, pipeVars,
                  config, now, registryVars, hostVars, cancelled, loopVars,
                  stopVars >>

\* startCollectorTask: s.collectorTasks[collector.Name()] = cancel;
\* s.mu.Unlock().
MuStoreUnlock ==
  /\ lkPc["start"].at = "store"
  /\ collectorTasks' = collectorTasks \cup {lkPc["start"].c}
  /\ lkMu' = "none"
  /\ lkPc' = [lkPc EXCEPT !["start"] = At("spawn", @.c)]
  /\ UNCHANGED << lkReg, wg, ivVars, regVars, pipeVars, config, now,
                  registryVars, hostVars, cancelled, loopVars, stopVars >>

\* startCollectorTask: s.wg.Add(1); go func() ...: the loop of the collector
\* exists and is about to call runCollector.
Spawn ==
  /\ lkPc["start"].at = "spawn"
  /\ wg' = wg + 1
  /\ lkPc' = [lkPc EXCEPT !["start"] = At("none", ""),
                          ![lkPc["start"].c] = At("run", "")]
  /\ UNCHANGED << lkMu, lkReg, collectorTasks, ivVars, regVars, pipeVars,
                  config, now, registryVars, hostVars, cancelled, loopVars,
                  stopVars >>

\* The loop calls runCollector (at once, or on a tick at the select):
\* collector.Collect(collectionCtx) is in progress.
CollectCall(c) ==
  /\ lkPc[c].at \in {"run", "select"}
  /\ lkPc' = [lkPc EXCEPT ![c] = At("Collect", "")]
  /\ UNCHANGED << lkMu, lkReg, collectorTasks, wg, ivVars, regVars,
                  pipeVars, config, now, registryVars, hostVars, cancelled,
                  loopVars, stopVars >>

\* Collect returns: with an error runCollector returns "collection
\* failed", with no unhealthy result processResults returns nil, and the
\* loop is back at its select; with an unhealthy result processResults
\* calls sendNotifications, which looks the email notifier up if enabled.
CollectReturns(c, outcome) ==
  /\ lkPc[c].at = "Collect"
  /\ lkPc' = [lkPc EXCEPT ![c] =
               CASE outcome = "error" -> Select("collection failed")
                 [] outcome = "healthy" -> Select("nil")
                 [] OTHER -> IF config.EmailEnabled
                             THEN At("sendNotifications", "")
                             ELSE Select("nil")]
  /\ UNCHANGED << lkMu, lkReg, collectorTasks, wg, ivVars, regVars,
                  pipeVars, config, now, registryVars, hostVars, cancelled,
                  loopVars, stopVars >>

\* sendNotifications: s.notifierRegistry.Get("email"): r.mu.RLock() returns.
NotifierGetRLock(c) ==
  /\ lkPc[c].at = "sendNotifications"
  /\ lkReg' = [lkReg EXCEPT !["notifiers"] = @ \cup {c}]
  /\ lkPc' = [lkPc EXCEPT ![c] = At("Get", "")]
  /\ UNCHANGED << lkMu, collectorTasks, wg, ivVars, regVars, pipeVars,
                  config, now, registryVars, hostVars, cancelled, loopVars,
                  stopVars >>

\* A Get whose caller keeps the read lock while it uses the notifier.
NotifierGetReturn_keepLock(c) ==
  /\ lkPc[c].at = "Get"
  /\ lkPc' = [lkPc EXCEPT ![c] = At("Notify", "")]
  /\ UNCHANGED << lkReg, lkMu, collectorTasks, wg, ivVars, regVars,
                  pipeVars, config, now, registryVars, hostVars, cancelled,
                  loopVars, stopVars >>

\* Get returns (deferred RUnlock) and sendNotifications calls
\* notifier.Notify(notifyCtx, results), which is in progress.
NotifierGetReturn(c) ==
  /\ lkPc[c].at = "Get"
  /\ lkReg' = [lkReg EXCEPT !["notifiers"] = @ \ {c}]
  /\ lkPc' = [lkPc EXCEPT ![c] = At("Notify", "")]
  /\ UNCHANGED << lkMu, collectorTasks, wg, ivVars, regVars, pipeVars,
                  config, now, registryVars, hostVars, cancelled, loopVars,
                  stopVars >>

\* Notify returns, nil or an error that sendNotifications returns as
\* "notification errors"; the loop is back at its select.
NotifyReturns(c, ok) ==
  /\ lkPc[c].at = "Notify"
  /\ lkPc' = [lkPc EXCEPT ![c] =
               Select(IF ok THEN "nil" ELSE "notification errors")]
  /\ UNCHANGED << lkMu, lkReg, collectorTasks, wg, ivVars, regVars,
                  pipeVars, config, now, registryVars, hostVars, cancelled,
                  loopVars, stopVars >>

LockNext ==
  \/ \E c \in CollectorSet : StartGetRLock(c)
  \/ StartGetReturn
  \/ MuLock
  \/ MuStoreUnlock
  \/ Spawn
  \/ \E c \in CollectorSet : CollectCall(c)
  \/ \E c \in CollectorSet :
       \E outcome \in {"error", "healthy", "unhealthy"} :
         CollectReturns(c, outcome)
  \/ \E c \in CollectorSet : NotifierGetRLock(c)
  \/ \E c \in CollectorSet : NotifierGetReturn(c)
  \/ \E c \in CollectorSet : \E ok \in BOOLEAN : NotifyReturns(c, ok)

LockSpec == RegistryInit /\ [][LockNext]_vars

\* ================================================================ claims
InFlight == {"collecting", "notifying"}
Failed == {"collectErr", "notifyErr"}

\* Tick times of c's ticker up to t, and the times at which the claim of
\* one invocation per tick puts c's invocations.
TickTimes(c, t) ==
  IF interval[c] <= 0 \/ t < loopStart[c] THEN {}
  ELSE {loopStart[c] + k * interval[c] :
          k \in 1..((t - loopStart[c]) \div interval[c])}
Schedule(c, t) == {loopStart[c]} \cup TickTimes(c, t)

\* The loop of c is at its select with nothing to do.
Quiescent(c) == loop[c] = "wait" /\ ~tickPending[c] /\ ~cancelled

\* C1: Stop triggers the cancellation signal and then blocks until every
\* spawned task loop has exited: while Stop is past s.cancel() the signal is
\* set, past s.wg.Wait() no loop is running, and no Cleanup or Close call
\* is made while a loop is running or a collector invocation is in flight.
C1_StopJoinsBeforeCleanup ==
  /\ [](hostPc \in {"wait", "cleanup", "close"} => cancelled)
  /\ [](hostPc \in {"cleanup", "close"} =>
          \A c \in CollectorSet : loop[c] \notin Running /\ inflight[c] = 0)
  /\ [][(cleanupCount' # cleanupCount \/ closeCount' # closeCount) =>
          \A c \in CollectorSet : loop[c] \notin Running /\ inflight[c] = 0]_vars

\* C1 witness: Stop is cleaning up after joining two loops, one of which
\* had run more than once.
C1_Witness ==
  /\ hostPc = "cleanup"
  /\ \E c \in CollectorSet : cleanupCount[c] = 1
  /\ \A c \in CollectorSet : loop[c] = "exited"
  /\ \E c \in CollectorSet : invocations[c] >= 2

\* C2 (as claimed): once a Stop has returned, no task loop is running and
\* no Collect is in flight, so that no invocation starts any more.
C2_NoInvocationAfterStop ==
  stopsReturned >= 1 =>
    \A c \in CollectorSet : loop[c] \notin Running /\ inflight[c] = 0

\* C3 (as claimed): once the first Start has returned an error, no task
\* loop is left running.
C3_NoLoopAfterFailedStart ==
  (hostPc = "idle" /\ startCalls = 1 /\ startResult = "error") =>
    \A c \in CollectorSet : loop[c] \notin Running

\* C4 (as claimed): an invocation whose 30 second sub-deadline has expired
\* is treated as failed: it is not still in flight a clock step after its
\* deadline, so the loop is back at its select for the next tick.
C4_HungCollectTimesOut ==
  \A c \in CollectorSet :
    loop[c] = "collecting" => now < callStart[c] + CollectTimeout + TimeStep

\* C5 (as claimed): once the shutdown signal is set, a loop at its select
\* does not start a collector invocation.
C5_NoInvocationOnceCancelled ==
  [][\A c \in CollectorSet :
       (cancelled /\ loop[c] = "wait") => loop'[c] # "collecting"]_vars

\* C6 (as claimed): the shutdown signal does not cancel an invocation that
\* is already in flight.
C6_InFlightNotCancelled ==
  \A c \in CollectorSet : callCtx[c] # "cancelledInFlight"

\* C6 (amended): the shutdown signal cancels the context of an invocation in
\* flight but does not end the invocation: the loop stays in the call until
\* Collect returns, and the context of a call in flight is live exactly
\* while neither the shutdown signal nor its 30 second deadline has come.
C6_ShutdownCancelsContextOnly ==
  /\ [](\A c \in CollectorSet :
          loop[c] = "collecting" =>
            (callCtx[c] = "live" <=>
               ~cancelled /\ now < callStart[c] + CollectTimeout))
  /\ [][\A c \in CollectorSet :
          (loop[c] = "collecting" /\ ~cancelled /\ cancelled') =>
            /\ loop'[c] = "collecting"
            /\ inflight'[c] = inflight[c]
            /\ callCtx'[c] \in {"cancelledInFlight", "expired"}]_vars

\* C6 witness: Stop waits while an invocation that was in flight when it was
\* called runs on with a cancelled context.
C6_Witness ==
  /\ hostPc = "wait"
  /\ \E c \in CollectorSet :
       loop[c] = "collecting" /\ callCtx[c] = "cancelledInFlight"

\* C7: a failed cycle never ends a task loop: a loop leaves an invocation
\* only for its select, whatever the invocation returned, and a loop at its
\* select with a tick runs the collector again.
C7_FailureKeepsLoop ==
  /\ [][\A c \in CollectorSet :
          loop[c] \in InFlight => loop'[c] \in InFlight \cup {"wait"}]_vars
  /\ [](\A c \in CollectorSet :
          lastOutcome[c] \in Failed =>
            /\ loop[c] = "wait"
            /\ tickPending[c] => ENABLED SelectTick(c))

\* C7 witness: the third cycle of a collector has failed and its loop is
\* back at its select with the next tick ready and no shutdown signal.
C7_Witness ==
  \E c \in CollectorSet :
    /\ lastOutcome[c] \in Failed
    /\ invocations[c] >= 3
    /\ TickReady(c)
    /\ ~cancelled

\* C8 (as claimed): a collector is invoked when its loop starts and at every
\* tick of its period: whenever its loop is idle at its select, its
\* invocation times are exactly its start time and its tick times (stated
\* for collectors none of whose plugin calls outlived its 30 second
\* deadline).
C8_InvokedAtEveryTick ==
  \A c \in CollectorSet :
    (Quiescent(c) /\ ~late[c]) => invokedAt[c] = Schedule(c, now)

\* C8 (amended): a collector is invoked when its loop starts, before any
\* tick, and every later invocation takes one tick of its own ticker; its
\* invocation times are exactly its start time and its tick times as long
\* as no tick fired while an invocation was running, whatever the other
\* collectors do.
C8_InvokedAtEveryTickUnlessBusy ==
  \A c \in CollectorSet :
    /\ loop[c] \in TickerOn \cup {"exited"} => loopStart[c] \in invokedAt[c]
    /\ loop[c] # "none" => invocations[c] <= 1 + Cardinality(TickTimes(c, now))
    /\ (Quiescent(c) /\ ~overrun[c]) => invokedAt[c] = Schedule(c, now)

\* C8 witness: the README's schedule, disk_space every 60 s and memory every
\* 120 s: both ran at 0, disk_space alone at 60, both at 120.
C8_Witness ==
  /\ now = 120
  /\ ~cancelled
  /\ interval["disk_space"] = 60 /\ interval["memory"] = 120
  /\ invokedAt["disk_space"] = {0, 60, 120}
  /\ invokedAt["memory"] = {0, 120}

\* C9: a stall in one collector's loop never blocks another's: while a loop
\* is inside a Collect or Notify call, every other loop can take each of its
\* own steps.
C9_StallDoesNotBlockOthers ==
  \A c \in CollectorSet : \A d \in CollectorSet \ {c} :
    loop[d] \in InFlight =>
      /\ loop[c] = "spawned" => ENABLED LoopBegin(c)
      /\ TickReady(c) => ENABLED SelectTick(c)
      /\ loop[c] = "collecting" => ENABLED CollectReturn(c)
      /\ loop[c] = "notifying" => ENABLED NotifyReturn(c)

\* C9 witness: one collector has been inside Collect since time 0, well past
\* its deadline, and the other has started an invocation on a later tick.
C9_Witness ==
  \E c \in CollectorSet : \E d \in CollectorSet \ {c} :
    /\ loop[d] = "collecting"
    /\ callStart[d] = 0
    /\ now >= 2 * CollectTimeout
    /\ loop[c] = "collecting"
    /\ callStart[c] = now

\* C10: invocations of one collector are strictly sequential: at most one
\* runCollector of a collector is in progress, and none starts while the
\* previous one (Collect or its notification dispatch) is running.
C10_SequentialInvocations ==
  /\ [](\A c \in CollectorSet :
          /\ inflight[c] <= 1
          /\ inflight[c] = 1 <=> loop[c] \in InFlight)
  /\ [][\A c \in CollectorSet :
          loop[c] \in InFlight => invocations'[c] = invocations[c]]_vars

\* C10 witness: a tick has arrived while the notification dispatch of the
\* previous invocation is still running, and no new invocation was started.
C10_Witness ==
  \E c \in CollectorSet :
    /\ loop[c] = "notifying"
    /\ tickPending[c]
    /\ inflight[c] = 1
    /\ invocations[c] = 1

\* The service is Running: a Start has returned nil and Stop has not been
\* called.
ServiceRunning == startedOk /\ ~cancelled

\* Collectors that are enabled in the configuration, present in the registry
\* and whose Init returned nil.
Eligible ==
  {c \in CollectorSet :
     /\ config.Collectors[c].Present /\ config.Collectors[c].Enabled
     /\ Get(collectorRegistry, c)
     /\ c \in collectorInited}

\* C11: while the service is Running there is exactly one task loop per
\* collector that is enabled, registered and initialized, and no loop for
\* any other collector: the running loops, the keys of the task map and the
\* WaitGroup counter all match that set.
C11_OneLoopPerEligibleCollector ==
  ServiceRunning =>
    /\ {c \in CollectorSet : loop[c] \in Running} = Eligible
    /\ collectorTasks = Eligible
    /\ wg = Cardinality(Eligible)

\* C11 witness: the service is Running, a second Start having failed
\* since, with the memory collector disabled and a collector enabled that
\* has no plugin; disk_space alone has a loop, which has run more than once.
C11_Witness ==
  /\ ServiceRunning
  /\ startCalls = 2 /\ hostPc = "idle" /\ startResult = "error"
  /\ config.Collectors["cpu"].Enabled
  /\ ~config.Collectors["memory"].Enabled
  /\ Eligible = {"disk_space"}
  /\ loop["memory"] = "none"
  /\ invocations["disk_space"] >= 2

\* ------------------------------------------------ claims on the pipeline
\* Positions of the unhealthy entries of the batch.
UnhealthyAt == {i \in 1..Len(pResults) : ~pResults[i].IsHealthy}

\* arg is the batch restricted to the positions in idx, in batch order.
IsRestriction(arg, idx) ==
  /\ Len(arg) = Cardinality(idx)
  /\ \A i \in idx :
       arg[Cardinality({j \in idx : j <= i})] = pResults[i]

\* C12: a batch in which every entry is healthy, the empty batch included,
\* makes processResults call no notifier and return nil.
C12_HealthyBatchNoNotify ==
  (pPc = "returned" /\ UnhealthyAt = {}) =>
    pNotified = << >> /\ ~pReturn.err

\* C12 witness: processResults has returned for a non-empty batch of
\* healthy results with the email notifier enabled and registered.
C12_Witness ==
  /\ pPc = "returned"
  /\ Len(pResults) >= 1
  /\ UnhealthyAt = {}
  /\ config.EmailEnabled /\ Get(notifierRegistry, "email")

\* Notifiers that are enabled in the configuration: Notifications has the
\* one section Email.
EnabledNotifiers == IF config.EmailEnabled THEN {"email"} ELSE {}

\* Indices of the Notify calls made to notifier n.
CallsTo(n) == {i \in 1..Len(pNotified) : pNotified[i].notifier = n}

\* C13: for a batch with an unhealthy entry, every enabled notifier gets
\* exactly one Notify call and every other notifier none; the argument is
\* the batch restricted to the entries with IsHealthy = false, in batch
\* order, whatever the other fields of the results are.
C13_UnhealthySubsetToEachNotifier ==
  (pPc = "returned" /\ UnhealthyAt # {}) =>
    \A n \in NotifierSet :
      IF n \in EnabledNotifiers
      THEN /\ Cardinality(CallsTo(n)) = 1
           /\ \A i \in CallsTo(n) :
                IsRestriction(pNotified[i].results, UnhealthyAt)
      ELSE CallsTo(n) = {}

\* C13 witness: a batch of a healthy result followed by an unhealthy one
\* whose measurement differs; email was notified with the second alone.
C13_Witness ==
  /\ pPc = "returned"
  /\ Len(pResults) = 2
  /\ pResults[1].IsHealthy /\ ~pResults[2].IsHealthy
  /\ pResults[1].Detail # pResults[2].Detail
  /\ Len(pNotified) = 1
  /\ pNotified[1].results = << pResults[2] >>

\* Notifiers whose Notify call failed.
FailedNotifiers ==
  {pNotified[i].notifier : i \in {j \in 1..Len(pNotified) : ~pNotified[j].ok}}

\* C15: sendNotifications, reached for a batch with an unhealthy entry,
\* returns an error exactly when a Notify call it made failed, the error
\* lists every failed notifier, and with no notifier enabled it returns nil.
C15_ErrorIffNotifyFailed ==
  (pPc = "returned" /\ UnhealthyAt # {}) =>
    /\ pReturn.err <=> FailedNotifiers # {}
    /\ {pReturn.refs[i] : i \in 1..Len(pReturn.refs)} = FailedNotifiers
    /\ EnabledNotifiers = {} => ~pReturn.err

\* C15 witness: email's Notify failed for a batch with an unhealthy entry
\* and the returned error names it.
C15_Witness ==
  /\ pPc = "returned"
  /\ UnhealthyAt # {}
  /\ FailedNotifiers = {"email"}
  /\ pReturn = NotificationErrors(<< "email" >>)

\* C16: when the first Stop is about to return, Cleanup has been called
\* exactly once on every registered collector and Close exactly once on
\* every registered notifier, enabled or not and whatever the calls
\* returned.
C16_EveryPluginReleasedOnce ==
  (hostPc = "close" /\ todo = {} /\ stopsReturned = 0) =>
    /\ \A c \in CollectorSet :
         cleanupCount[c] = IF Get(collectorRegistry, c) THEN 1 ELSE 0
    /\ \A n \in NotifierSet :
         closeCount[n] = IF Get(notifierRegistry, n) THEN 1 ELSE 0

\* C16 witness: Stop is about to return after a Cleanup or Close returned
\* an error, with the memory collector and the email notifier disabled,
\* and every registered plugin was released once.
C16_Witness ==
  /\ hostPc = "close" /\ todo = {} /\ stopsReturned = 0
  /\ stopErrs
  /\ ~config.Collectors["memory"].Enabled /\ ~config.EmailEnabled
  /\ collectorRegistry = CollectorSet /\ notifierRegistry = NotifierSet
  /\ \A c \in CollectorSet : cleanupCount[c] = 1
  /\ closeCount["email"] = 1

\* C17 (as claimed): every Stop terminates: a Stop that is waiting for the
\* task loops eventually returns, whatever the loops are doing.
C17_StopTerminates == (hostPc = "wait") ~> (hostPc = "idle")

\* The stages of Start in source order, and the stage that follows each.
StartStages ==
  << "registerCollectors", "registerNotifiers", "initializeCollectors",
     "initializeNotifiers", "startCollectorTasks" >>
StageNo(pc) == CHOOSE i \in 1..Len(StartStages) : StartStages[i] = pc
InStart == hostPc \in {StartStages[i] : i \in 1..Len(StartStages)}

\* Collectors that initializeCollectors has to initialize.
ToInitialize ==
  {c \in CollectorSet :
     config.Collectors[c].Present /\ config.Collectors[c].Enabled}

\* C18: Start goes through its stages in the order register collectors,
\* register notifiers, initialize collectors, initialize notifiers,
\* schedule loops.  A stage is entered only with the work of the stages
\* before it complete and, in the first Start, with none of the work of
\* the stages after it done; each piece of state is written only in its
\* own stage; Start leaves a stage only for the next one or to return an
\* error, and it returns nil only from the end of the last stage.
C18_StagesInOrder ==
  /\ [](InStart =>
          /\ StageNo(hostPc) > 1 => collectorRegistry = CollectorSet
          /\ StageNo(hostPc) > 2 => notifierRegistry = NotifierSet
          /\ StageNo(hostPc) > 3 => ToInitialize \subseteq collectorInited
          /\ StageNo(hostPc) > 4 =>
               (config.EmailEnabled => "email" \in notifierInited)
          /\ (startCalls = 1 /\ StageNo(hostPc) < 5) =>
               collectorTasks = {} /\ wg = 0
          /\ (startCalls = 1 /\ StageNo(hostPc) < 4) => notifierInited = {}
          /\ (startCalls = 1 /\ StageNo(hostPc) < 3) => collectorInited = {})
  /\ [][/\ collectorRegistry' # collectorRegistry =>
             hostPc = "registerCollectors"
        /\ notifierRegistry' # notifierRegistry =>
             hostPc = "registerNotifiers"
        /\ collectorInited' # collectorInited =>
             hostPc = "initializeCollectors"
        /\ notifierInited' # notifierInited =>
             hostPc = "initializeNotifiers"
        /\ (collectorTasks' # collectorTasks \/ wg' > wg) =>
             hostPc = "startCollectorTasks"
        /\ (InStart /\ hostPc' # hostPc) =>
             \/ /\ StageNo(hostPc) < Len(StartStages)
                /\ hostPc' = StartStages[StageNo(hostPc) + 1]
                /\ startResult' = startResult
             \/ hostPc' = "idle" /\ startResult' = "error"
             \/ /\ hostPc = "startCollectorTasks" /\ todo = {}
                /\ hostPc' = "idle" /\ startResult' = "ok"
        /\ (startResult' = "ok" /\ startResult # "ok") =>
             hostPc = "startCollectorTasks"]_vars

\* C18 witness: the first Start has returned an error from the notifier
\* initialization stage: the collectors were initialized before it, and no
\* loop was scheduled after it.
C18_Witness ==
  /\ hostPc = "idle" /\ startCalls = 1 /\ startResult = "error"
  /\ collectorRegistry = CollectorSet /\ notifierRegistry = NotifierSet
  /\ collectorInited = CollectorSet
  /\ config.EmailEnabled /\ notifierInited = {}
  /\ \A c \in CollectorSet : loop[c] = "none"

\* Collectors that have a plugin, are enabled in the configuration and
\* whose resolved interval is not positive.
BadInterval ==
  {c \in CollectorSet :
     /\ config.Collectors[c].Present /\ config.Collectors[c].Enabled
     /\ GetCollectorInterval(c) <= 0}

\* C19: with an enabled, registered collector whose resolved interval is
\* <= 0, no Start returns nil: every Start that has returned has returned
\* an error, the service is never Running, and that collector has no task
\* loop and is never invoked.
C19_InvalidIntervalFailsStart ==
  BadInterval # {} =>
    /\ startResult # "ok"
    /\ (hostPc = "idle" /\ startCalls >= 1) => startResult = "error"
    /\ \A c \in BadInterval :
         /\ loop[c] = "none"
         /\ c \notin collectorTasks
         /\ invocations[c] = 0

\* C19 witness: every plugin was initialized, disk_space resolves to an
\* interval of 0 and the first Start has returned an error.
C19_Witness ==
  /\ hostPc = "idle" /\ startCalls = 1 /\ startResult = "error"
  /\ BadInterval = {"disk_space"}
  /\ collectorInited = CollectorSet
  /\ config.EmailEnabled /\ notifierInited = NotifierSet

\* Names enabled in the configuration that have no entry in their registry.
MissingCollectors ==
  {n \in ConfigNames :
     /\ config.Collectors[n].Present /\ config.Collectors[n].Enabled
     /\ ~Get(collectorRegistry, n)}
MissingNotifiers ==
  {n \in EnabledNotifiers : ~Get(notifierRegistry, n)}

\* The collector half of C20: initializeCollectors steps over an enabled
\* name that is not registered without failing and without initializing
\* it, and such a name never gets a task.
MissingCollectorSkipped ==
  /\ [][(hostPc = "initializeCollectors" /\
           \E n \in MissingCollectors : n \in todo /\ todo' = todo \ {n})
          => /\ hostPc' = hostPc
             /\ startResult' = startResult
             /\ collectorInited' = collectorInited]_vars
  /\ [](\A n \in MissingCollectors :
          n \notin collectorInited /\ n \notin collectorTasks)
  /\ [](hostPc = "initializeNotifiers" =>
          collectorInited = ToInitialize \ MissingCollectors)

\* The stages of Start that follow registerCollectors and registerNotifiers.
InitStages == {"initializeCollectors", "initializeNotifiers",
               "startCollectorTasks"}

InitComplete ==
  /\ \A c \in ToInitialize : Get(collectorRegistry, c) => c \in collectorInited
  /\ \A n \in EnabledNotifiers :
       Get(notifierRegistry, n) => n \in notifierInited

\* C21: Start gets to the scheduling stage, and returns nil, only with
\* every enabled registered plugin initialized; once a Start has returned
\* an error with such a plugin not initialized (its Init failed), there is
\* no task loop and no Collect call, then or later.
C21_InitErrorAbortsStart ==
  /\ (hostPc = "startCollectorTasks" \/ startResult = "ok") => InitComplete
  /\ (hostPc \in {"initializeCollectors", "initializeNotifiers"}
        /\ startCalls = 1) => startResult = "none"
  /\ (startResult = "error" /\ ~InitComplete) =>
       /\ collectorTasks = {} /\ wg = 0
       /\ \A c \in CollectorSet : loop[c] = "none" /\ invocations[c] = 0

\* C21 witness: the Init of the disk collector failed after the memory
\* collector had been initialized; Start has returned an error, a clock
\* step has passed and a Stop has returned.
C21_Witness ==
  /\ hostPc = "idle" /\ startResult = "error"
  /\ collectorInited = {"memory"}
  /\ "disk_space" \in ToInitialize
  /\ now > 0
  /\ stopsReturned = 1

\* ---- the registries
\* Thread t has returned from a call of the given kind.
Returned(t, kind) == rPc[t] = "idle" /\ rOp[t].kind = kind

\* C22: registering a second capability under a name that is present fails
\* with an error and leaves the registry unchanged, and a get of a name that
\* has been registered returns the first (the only ever stored) instance.
C22_DuplicateRegisterFails ==
  [][\A t \in Threads :
       /\ (/\ rPc[t] = "check" /\ rPc'[t] # "check"
           /\ rOp[t].name # "" /\ rMap[rOp[t].name] # 0)
            => rPc'[t] = "idle" /\ rRet'[t].err /\ rMap' = rMap
       /\ (/\ rPc[t] = "read" /\ rPc'[t] = "idle" /\ rOp[t].kind = "Get"
           /\ rWins[rOp[t].name] # {})
            => rRet'[t].exists /\ rWins[rOp[t].name] = {rRet'[t].id}]_vars

\* A Register of a second, different instance under a registered name has
\* failed, and the first instance is the entry of that name.
C22_Witness ==
  /\ Returned(1, "Register") /\ rRet[1].err /\ rOp[1].name # ""
  /\ rMap[rOp[1].name] \notin {0, rOp[1].id}
  /\ rWins[rOp[1].name] = {rMap[rOp[1].name]}

\* C23: a Register of an instance with the empty name fails and inserts
\* nothing; a Register of a non-empty name that is not present inserts the
\* instance under that name, changes no other entry, and succeeds.
C23_EmptyNameFailsFreshNameInserts ==
  [][\A t \in Threads :
       /\ (rPc[t] = "check" /\ rPc'[t] # "check" /\ rOp[t].name = "")
            => rPc'[t] = "idle" /\ rRet'[t].err /\ rMap' = rMap
       /\ (/\ rPc[t] = "check" /\ rPc'[t] # "check"
           /\ rOp[t].name # "" /\ rMap[rOp[t].name] = 0)
            => rPc'[t] = "insert" /\ rMap' = rMap
       /\ (rPc[t] = "insert" /\ rPc'[t] # "insert")
            => /\ rMap[rOp[t].name] = 0
               /\ rMap' = [rMap EXCEPT ![rOp[t].name] = rOp[t].id]
               /\ rPc'[t] = "idle" /\ ~rRet'[t].err]_vars

\* One thread's Register of the empty name has failed and another's
\* Register of a fresh name has stored its instance and succeeded.
C23_Witness ==
  \E t, u \in Threads :
    /\ Returned(t, "Register") /\ rOp[t].name = "" /\ rRet[t].err
    /\ Returned(u, "Register") /\ rOp[u].name # "" /\ ~rRet[u].err
    /\ rMap[rOp[u].name] = rOp[u].id
    /\ rMap[""] = 0

\* C24: entries are permanent: an entry is never removed or rebound, the
\* set of registered names never shrinks, at most one instance is ever
\* bound to a name, and a Get of a registered name returns that instance.
C24_EntriesPermanent ==
  [][/\ \A n \in RegNames :
          /\ rMap[n] # 0 => rMap'[n] = rMap[n]
          /\ rWins[n] \subseteq rWins'[n]
          /\ Cardinality(rWins'[n]) <= 1
     /\ Registered \subseteq {n \in RegNames : rMap'[n] # 0}
     /\ (rPc[1] = "read" /\ rPc'[1] = "idle" /\ rOp[1].kind = "Get"
           /\ rMap[rOp[1].name] # 0)
          => rRet'[1].exists /\ rRet'[1].id = rMap[rOp[1].name]]_vars

\* With both names registered, a later Get has returned the instance that
\* was registered under its name.
C24_Witness ==
  /\ Cardinality(Registered) = 2
  /\ Returned(1, "Get") /\ rRet[1].exists
  /\ rRet[1].id = rMap[rOp[1].name]

\* Threads whose last call was a Register of name n that succeeded / failed.
Winners(n) ==
  {t \in Threads : Returned(t, "Register") /\ rOp[t].name = n /\ ~rRet[t].err}
Losers(n) ==
  {t \in Threads : Returned(t, "Register") /\ rOp[t].name = n /\ rRet[t].err}

\* C25: the writers exclude each other; of the threads that register the
\* same name exactly one succeeds and the others fail, whatever the
\* interleaving; and a Get returns absent or an instance whose Register
\* has stored it.
C25_ConcurrentRegisterOneWinner ==
  /\ Cardinality({t \in Threads : rPc[t] \in {"check", "insert"}}) <= 1
  /\ \A n \in RegNames \ {""} :
       /\ Cardinality(Winners(n)) <= 1
       /\ Cardinality(rWins[n]) <= 1
       /\ Losers(n) # {} => Cardinality(rWins[n]) = 1
       /\ Winners(n) # {} => rWins[n] = {rOp[t].id : t \in Winners(n)}
  /\ \A t \in Threads :
       Returned(t, "Get") =>
         IF rRet[t].exists THEN rRet[t].id \in rWins[rOp[t].name]
                           ELSE rRet[t].id = 0

\* Two threads are inside Register for the same name with different
\* instances at the same time: one holds the mutex and is about to insert,
\* the other waits in Lock.
C25_Witness ==
  \E t, u \in Threads :
    /\ rPc[t] = "insert" /\ rPc[u] = "lock"
    /\ rOp[u].kind = "Register" /\ rOp[u].name = rOp[t].name
    /\ rOp[u].id # rOp[t].id
    /\ rMu.writer = t

\* C26: the slice GetAll (CollectorNames) returns holds each registered
\* instance (name) once and nothing else, in any order; a Get of a name
\* that was never registered returns not found, not an error.
C26_ListIsSnapshot ==
  /\ \A kind \in {"GetAll", "Names"} :
       Returned(1, kind) =>
         LET l == rRet[1].list
         IN /\ Len(l) = Cardinality(Registered)
            /\ \A n \in Registered :
                 Cardinality({i \in DOMAIN l : l[i].name = n}) = 1
            /\ \A i \in DOMAIN l :
                 /\ l[i].name \in Registered
                 /\ l[i].id = IF kind = "GetAll" THEN rMap[l[i].name] ELSE 0
  /\ (Returned(1, "Get") /\ rWins[rOp[1].name] = {})
       => ~rRet[1].exists /\ ~rRet[1].err /\ rRet[1].id = 0

\* GetAll has returned both registered instances, memory first.
C26_Witness ==
  /\ Returned(1, "GetAll")
  /\ Len(rRet[1].list) = 2
  /\ rRet[1].list[1].name = "memory"
  /\ rRet[1].list[2] = [name |-> "disk_space", id |-> rMap["disk_space"]]

\* ---- the collection interval
\* The exact product of a number of seconds and time.Second, in 16 bytes.
ExactNanoseconds(sec) == Mul(Widen(sec, 16), Widen(Second, 16))

\* C27: for an enabled collector GetCollectorInterval returns the override,
\* as a duration of that many seconds, when the override is > 0, and the
\* default interval when the override is absent (0), zero or negative.
C27_IntervalResolution ==
  (ivPc = "idle" /\ ivIn.Present /\ ivIn.Enabled)
    => Widen(ivOut, 16) =
         ExactNanoseconds(IF NotPositive(ivIn.Interval) THEN ivIn.Default
                          ELSE ivIn.Interval)

\* ---- the task handles
\* startCollectorTasks is in its range and will start the task of c when
\* the range visits c.
WillStartTask(c) ==
  /\ hostPc = "startCollectorTasks"
  /\ c \in todo
  /\ config.Collectors[c].Enabled
  /\ Get(collectorRegistry, c)
  /\ GetCollectorInterval(c) > 0

\* C28: whenever a task is about to be started for a collector name, over
\* any sequence of Start calls, no handle is recorded under that name and
\* no loop exists for it yet: a handle is never overwritten and a name has
\* at most one loop.
C28_HandleNeverOverwritten ==
  \A c \in CollectorSet :
    WillStartTask(c) => c \notin collectorTasks /\ loop[c] = "none"

\* Start was called a second time and has returned its error while the
\* loops and handles of the first call exist.
C28_Witness ==
  /\ startCalls = 2 /\ hostPc = "idle" /\ startResult = "error"
  /\ collectorTasks = CollectorSet
  /\ \A c \in CollectorSet : loop[c] # "none" /\ invocations[c] > 0

\* C29: a collector that has a loop, running or exited, has a handle in
\* s.collectorTasks from the moment the loop is spawned on: the handle is
\* there before the loop runs and is not removed, not even by Stop.
C29_HandleHeldWhileLoopActive ==
  \A c \in CollectorSet : loop[c] # "none" => c \in collectorTasks

\* Stop has cancelled the context while a Collect is in flight, and the
\* handle of that loop is still in the map.
C29_Witness ==
  \E c \in CollectorSet :
    /\ cancelled /\ stopCalls > 0
    /\ inflight[c] > 0
    /\ c \in collectorTasks

\* ---- locks
\* The locks goroutine t holds.
Held(t) ==
  (IF lkMu = t THEN {"s.mu"} ELSE {})
    \cup {r \in DOMAIN lkReg : t \in lkReg[r]}
InPluginCall(t) == lkPc[t].at \in {"Collect", "Notify"}

\* C30: a goroutine that is inside Collect or Notify holds neither s.mu nor
\* a registry's lock, so while such a call hangs, s.mu can be taken to
\* record another handle and a registry Get can take its read lock.
C30_NoLockAcrossPluginCall ==
  /\ \A t \in LockThreads : InPluginCall(t) => Held(t) = {}
  /\ lkPc["start"].at = "lockMu" => ENABLED MuLock
  /\ \A c \in CollectorSet :
       lkPc[c].at = "sendNotifications" => ENABLED NotifierGetRLock(c)

\* While the Notify of one loop is in progress, the other loop is inside
\* the notifier registry's Get and holds its read lock.
C30_Witness ==
  \E c, d \in CollectorSet :
    /\ lkPc[c].at = "Notify"
    /\ lkPc[d].at = "Get" /\ Held(d) = {"notifiers"}

\* ---- the life of a loop
\* C31: a task loop exits only because of the shutdown signal, which only
\* Stop sets: as long as Stop has not been called the signal is not set,
\* no loop that Start spawned has exited, and the WaitGroup counts every
\* spawned loop.
C31_LoopExitsOnlyOnShutdown ==
  /\ cancelled <=> stopCalls > 0
  /\ stopCalls = 0 =>
       /\ \A c \in CollectorSet : loop[c] # "exited"
       /\ wg = Cardinality({c \in CollectorSet : loop[c] # "none"})

\* Stop has not been called by the end of the run: both loops are alive
\* after at least two invocations each, one of them after a failed cycle.
C31_Witness ==
  /\ stopCalls = 0 /\ now = MaxTime
  /\ \A c \in CollectorSet : loop[c] \in Running /\ invocations[c] >= 2
  /\ \E c \in CollectorSet : lastOutcome[c] \in Failed

\* C32: when Collect returns an error, runCollector returns the
\* "collection failed" error without calling any notifier, whatever the
\* results returned alongside the error.
C32_FailedCollectDiscardsResults ==
  pPc = "collectFailed" => pNotified = << >> /\ pReturn = CollectionFailed

\* Collect has failed with a partial batch that holds an unhealthy result,
\* the email notifier is enabled, and runCollector has returned.
C32_Witness ==
  /\ pPc = "collectFailed" /\ pReturn = CollectionFailed
  /\ config.EmailEnabled
  /\ \E i \in DOMAIN pResults : ~pResults[i].IsHealthy

\* C33: Collect is invoked only on a collector whose Init has returned nil
\* before, and Notify only on a notifier whose Init has returned nil
\* before: a collector that has a task loop or an invocation is an
\* initialized one, and a loop is inside Notify only when the email
\* notifier is initialized.
C33_InitBeforeUse ==
  /\ \A c \in CollectorSet :
       (loop[c] # "none" \/ invocations[c] > 0) => c \in collectorInited
  /\ \A c \in CollectorSet :
       loop[c] = "notifying" => "email" \in notifierInited

\* A loop is inside Notify after its second Collect, and the disk
\* collector, whose Init can fail, has been invoked as well.
C33_Witness ==
  /\ \E c \in CollectorSet : loop[c] = "notifying" /\ invocations[c] >= 2
  /\ invocations["disk_space"] >= 1
  /\ collectorInited = CollectorSet /\ notifierInited = NotifierSet

\* A collector that startCollectorTasks and initializeCollectors pass over:
\* disabled in the configuration or without an entry in it.
NotConfigured(c) == ~config.Collectors[c].Enabled

\* C34: a registered collector that is disabled or absent in the
\* configuration is never initialized, gets no task and no invocation,
\* and a disabled email notifier is never initialized nor notified; a
\* Stop that finds them registered has called their Cleanup or Close by
\* the end of its range over the registry.
C34_DisabledPluginsOnlyReleased ==
  /\ \A c \in CollectorSet :
       NotConfigured(c) =>
         /\ c \notin collectorInited /\ c \notin collectorTasks
         /\ loop[c] = "none" /\ invocations[c] = 0
         /\ (hostPc = "close" /\ Get(collectorRegistry, c))
              => cleanupCount[c] >= 1
  /\ ~config.EmailEnabled =>
       /\ "email" \notin notifierInited
       /\ \A c \in CollectorSet : loop[c] # "notifying"
       /\ (hostPc = "close" /\ todo = {} /\ Get(notifierRegistry, "email"))
            => closeCount["email"] >= 1

\* Stop is about to return on a service whose other collector was invoked: the
\* collector without a configuration entry and the
\* disabled email notifier were registered, left alone, and released.
C34_Witness ==
  /\ hostPc = "close" /\ todo = {} /\ ~config.EmailEnabled
  /\ \E c \in CollectorSet :
       /\ ~config.Collectors[c].Present /\ Get(collectorRegistry, c)
       /\ invocations[c] = 0 /\ cleanupCount[c] >= 1
  /\ \E c \in CollectorSet : invocations[c] >= 1
  /\ Get(notifierRegistry, "email") /\ closeCount["email"] >= 1

\* C35: once Collect has returned without error a batch with an unhealthy
\* result, and the email notifier is enabled, Notify has been called once
\* for that batch by the time runCollector returns, whether or not s.ctx
\* was cancelled meanwhile; the context Notify received was already done
\* only if s.ctx had been cancelled.
C35_DispatchIgnoresCancellation ==
  (pPc \in {"notifying", "returned"} /\ UnhealthyAt # {}
     /\ config.EmailEnabled) =>
    /\ Len(pNotified) = 1
    /\ pNotified[1].notifier = "email"
    /\ pNotified[1].results = unhealthyResults(pResults)
    /\ pNotified[1].ctx \in {"live", "cancelledAtStart"}
    /\ pNotified[1].ctx = "cancelledAtStart" => cancelled

\* s.ctx was cancelled while Collect was running, Collect still returned a
\* batch with an unhealthy result, and Notify was called with a context
\* that was already done, and has returned.
C35_Witness ==
  /\ pPc = "returned" /\ cancelled
  /\ UnhealthyAt # {} /\ config.EmailEnabled
  /\ Len(pNotified) = 1 /\ pNotified[1].ctx = "cancelledAtStart"

\* The stages of Start that follow registerCollectors.
AfterRegistering ==
  {"registerNotifiers", "initializeCollectors", "initializeNotifiers",
   "startCollectorTasks"}

\* C36: a Start after the first one fails in registerCollectors and does
\* nothing else: it never reaches a later stage, it has returned an error
\* once it is past the registration, and, as long as Stop has not been
\* called, the handles, the WaitGroup and the loops are those of the first
\* Start, every one of them still running.
C36_SecondStartFailsRegistering ==
  startCalls >= 2 =>
    /\ hostPc \notin AfterRegistering
    /\ hostPc # "registerCollectors" => startResult = "error"
    /\ collectorRegistry = CollectorSet /\ notifierRegistry = NotifierSet
    /\ stopCalls = 0 =>
         /\ wg = Cardinality(collectorTasks)
         /\ \A c \in CollectorSet :
              IF c \in collectorTasks THEN loop[c] \in Running
              ELSE loop[c] = "none"

\* The second Start has returned its error on a service that the first
\* Start brought up completely: both loops still run and have collected
\* again since.
C36_Witness ==
  /\ startCalls = 2 /\ hostPc = "idle" /\ startResult = "error"
  /\ stopCalls = 0 /\ BadInterval = {}
  /\ collectorInited = CollectorSet
  /\ \A c \in CollectorSet : loop[c] \in Running /\ invocations[c] >= 2

\* A Stop called after the registration of a Start has got past its
\* s.wg.Wait(): it has called Cleanup on a registered collector.
JoinedAfterStart == \E c \in CollectorSet : cleanupCount[c] >= 1

\* C37: when Start has failed in startCollectorTasks with some loops
\* already spawned and a Stop called since has joined, then and from then
\* on every spawned loop has exited, no other loop exists, no Collect is
\* in flight and the WaitGroup is at zero, so that no invocation can begin.
C37_StopJoinsLoopsOfFailedStart ==
  (startResult = "error" /\ BadInterval # {} /\ collectorTasks # {}
     /\ JoinedAfterStart) =>
    /\ cancelled /\ wg = 0
    /\ \A c \in CollectorSet :
         /\ loop[c] = (IF c \in collectorTasks THEN "exited" ELSE "none")
         /\ inflight[c] = 0

\* The only Start failed on the invalid interval of one collector after
\* the loop of the other had been spawned; that loop collected, then Stop
\* was called and has returned.
C37_Witness ==
  /\ startCalls = 1 /\ startResult = "error" /\ BadInterval # {}
  /\ stopsReturned = 1 /\ hostPc = "idle"
  /\ \E c \in CollectorSet :
       /\ c \in collectorTasks /\ loop[c] = "exited" /\ invocations[c] >= 1
       /\ cleanupCount[c] = 1
  /\ \E c \in CollectorSet : c \notin collectorTasks

\* C38 (as claimed): a Stop called after an earlier one has returned finds the
\* WaitGroup at zero, so it does not wait, and no loop runs or starts an
\* invocation; it goes through the registries again, so that outside Stop
\* every registered plugin has had Cleanup or Close called once per Stop
\* that returned.
C38_EveryStopReleasesAgain ==
  /\ stopCalls >= 2 =>
       /\ wg = 0
       /\ \A c \in CollectorSet : loop[c] \notin Running /\ inflight[c] = 0
  /\ hostPc \notin {"wait", "cleanup", "close"} =>
       /\ \A c \in CollectorSet :
            cleanupCount[c] =
              IF Get(collectorRegistry, c) THEN stopsReturned ELSE 0
       /\ \A n \in NotifierSet :
            closeCount[n] =
              IF Get(notifierRegistry, n) THEN stopsReturned ELSE 0

====
